---- MODULE Spec2Model ----
(***************************************************************************)
(* A model of the time-interval engine of the time-tracker repository:     *)
(* the time codec and interval algebra (utils/timeUtils), the circular     *)
(* dial's press-drag-release handlers (components/CircularChart), the      *)
(* linear timeline's handlers (components/Timeline), the schedule editor's *)
(* block handlers and its switch between schedules (components/Dashboard), *)
(* the pie chart's slices, increment and legend merge (DayChart) and the   *)
(* creation, deletion and default flag of stored schedules                 *)
(* (components/SchedulesPage, services/scheduleService).                   *)
(*                                                                         *)
(* Clock strings are modelled as sequences of one-character strings, so    *)
(* that formatting ("HH:MM", zero padded) and parsing (split on ":", then  *)
(* Number) are computed as the code computes them.                         *)
(***************************************************************************)
EXTENDS Integers, Sequences, FiniteSets, TLC

VARIABLES
    \* CircularChart (React state and the lastDragMinutesRef ref)
    isDragging, dragStart, dragProgress, hasMovedEnough, lastDragMinutes,
    \* Dashboard (React state)
    timeBlocks, pendingBlock, editingBlock, showLabelModal,
    \* observation of the latest handler run
    event,      \* name of the handler that ran last
    created,    \* arguments of its onBlockCreated call, or Null
    alertMsg,   \* message of its alert() call, or Null
    gesture,    \* raw pointer minutes of the current drag session
    \* observation of the DOM event the latest dial handler ran for
    domEvent,           \* its type ("mousedown", "touchmove", ...)
    defaultPrevented,   \* whether a handler called its preventDefault()
    blockCreatedCalls,  \* onBlockCreated calls since the last pointer-down
    replacedSession,    \* that pointer-down arrived while a session was open
    \* a call of a pure function of timeUtils and its result
    call, ret,
    \* the schedule documents of the signed-in user (Firestore, by id)
    storedSchedules,
    \* Dashboard (React state): the page shown and the schedule being edited
    currentRoute, currentScheduleId,
    \* SchedulesPage (React state, alive while the page is mounted)
    schedules, isCreating,
    \* Dashboard (React state): the drawing surface shown, 'circular' or 'linear'
    viewMode,
    \* Timeline (React state, as a record of its useState cells)
    timeline,
    \* the getSchedule() reads of handleScheduleSelect still awaited, oldest
    \* first: each the blocks of the document read
    scheduleLoad,
    \* DayChart (React state, as a record of its useState cells)
    dayChart,
    \* the ids of the stored schedules whose isDefault field is true
    defaultSchedules

vars == <<isDragging, dragStart, dragProgress, hasMovedEnough, lastDragMinutes,
          timeBlocks, pendingBlock, editingBlock, showLabelModal,
          event, created, alertMsg, gesture,
          domEvent, defaultPrevented, blockCreatedCalls, replacedSession,
          call, ret,
          storedSchedules, currentRoute, currentScheduleId, schedules, isCreating,
          viewMode, timeline, scheduleLoad, dayChart, defaultSchedules>>

dialVars == <<isDragging, dragStart, dragProgress, hasMovedEnough, lastDragMinutes>>
editorVars == <<timeBlocks, pendingBlock, editingBlock, showLabelModal>>
domVars == <<domEvent, defaultPrevented, blockCreatedCalls, replacedSession>>
codecVars == <<call, ret>>
scheduleVars == <<storedSchedules, currentRoute, currentScheduleId, schedules,
                  isCreating, defaultSchedules>>
surfaceVars == <<viewMode, timeline>>
loadVars == <<scheduleLoad>>
chartVars == <<dayChart>>

\* null / undefined of the source: a nullable value is <<>> or <<v>>
Null == <<>>
Some(v) == <<v>>

-----------------------------------------------------------------------------
(* Bounds of the model *)

\* blocks a schedule may hold before the model stops starting new drags
MaxBlocks == 2
\* pointer moves of one drag session
MaxMoves == 3
\* blocks of the collection handed to validateTimeBlock
MaxExisting == 2
\* slices of the pie handed to the legend's merge (24, 48 or 96 in the app)
MaxSlices == 5
\* schedules one user may have stored before the model stops adding more
MaxStored == 11
\* getSchedule() reads awaited at one time
MaxLoads == 1
\* schedules marked as the default before the model stops marking more
MaxDefaults == 2
\* the schedules whose rows of the schedules page are clicked on: the first
\* MaxListed ids
MaxListed == 3

-----------------------------------------------------------------------------
(* Program constants *)

\* 24 * 60
DayMinutes == 1440
\* the half circle of the shortest-direction test
HalfDay == 720
DRAG_THRESHOLD_MINUTES == 5
\* Timeline: pixels to move before starting a drag
DRAG_THRESHOLD == 10
\* Timeline: the height of the timeline, in pixels, before the viewport is measured
TimelineHeight == 1100
\* the number of schedules at which "+ New Schedule" is disabled
ScheduleQuota == 10

Max(a, b) == IF a >= b THEN a ELSE b
Min(a, b) == IF a <= b THEN a ELSE b

-----------------------------------------------------------------------------
(* JavaScript strings and numbers, as far as the codec uses them *)

Digits == <<"0", "1", "2", "3", "4", "5", "6", "7", "8", "9">>

DigitChar(d) == Digits[d + 1]

DigitVal(c) == CHOOSE d \in 0..9 : Digits[d + 1] = c

\* Number.prototype.toString for an integer n >= 0
RECURSIVE NumToString(_)
NumToString(n) ==
    IF n < 10 THEN <<DigitChar(n)>>
    ELSE NumToString(n \div 10) \o <<DigitChar(n % 10)>>

\* String.prototype.padStart(2, '0')
PadStart2(s) == IF Len(s) < 2 THEN <<"0">> \o s ELSE s

\* Number(s) for a string of decimal digits
RECURSIVE StrToNumber(_)
StrToNumber(s) ==
    IF Len(s) = 0 THEN 0
    ELSE 10 * StrToNumber(SubSeq(s, 1, Len(s) - 1)) + DigitVal(s[Len(s)])

\* the two parts of s.split(':') for a string with one colon
ColonAt(s) == CHOOSE i \in 1..Len(s) : s[i] = ":"
SplitHead(s) == SubSeq(s, 1, ColonAt(s) - 1)
SplitTail(s) == SubSeq(s, ColonAt(s) + 1, Len(s))

\* Math.round(x / 5) for an integer x: floor(x / 5 + 1/2)
RoundDiv5(x) == (2 * x + 5) \div 10

-----------------------------------------------------------------------------
(* utils/timeUtils: the time codec *)

snapToFiveMinutes_Ceil(minutes) == ((minutes + 4) \div 5) * 5

snapToFiveMinutes(minutes) == RoundDiv5(minutes) * 5

minutesToTimeString(minutes) ==
    LET snapped == snapToFiveMinutes(minutes)
        totalMinutes == ((snapped % DayMinutes) + DayMinutes) % DayMinutes
        hours == totalMinutes \div 60
        mins == totalMinutes % 60
    IN  PadStart2(NumToString(hours)) \o <<":">> \o PadStart2(NumToString(mins))

timeStringToMinutes(timeString) ==
    LET hours == StrToNumber(SplitHead(timeString))
        minutes == StrToNumber(SplitTail(timeString))
    IN  hours * 60 + minutes

\* timeStringToMinutes on any string, with the JavaScript values it can
\* return: a number or NaN. Nothing in it throws.
IsDigit(c) == \E d \in 1..10 : Digits[d] = c

\* timeString.split(':')
RECURSIVE SplitOnColon(_)
SplitOnColon(s) ==
    IF \A i \in 1..Len(s) : s[i] # ":" THEN <<s>>
    ELSE LET i == CHOOSE x \in 1..Len(s) :
                      s[x] = ":" /\ \A y \in 1..(x - 1) : s[y] # ":"
         IN  <<SubSeq(s, 1, i - 1)>> \o SplitOnColon(SubSeq(s, i + 1, Len(s)))

\* the white space Number() ignores at both ends
RECURSIVE TrimSpaces(_)
TrimSpaces(s) ==
    IF Len(s) > 0 /\ s[1] = " " THEN TrimSpaces(SubSeq(s, 2, Len(s)))
    ELSE IF Len(s) > 0 /\ s[Len(s)] = " " THEN TrimSpaces(SubSeq(s, 1, Len(s) - 1))
    ELSE s

NaN == [kind |-> "NaN"]
JsInteger(n) == [kind |-> "number", value |-> n]

\* Number(s) for a string of digits, spaces, signs and letters that no
\* numeric literal has: 0 for the empty string, the value of a signed
\* decimal integer, NaN for anything else
JsNumber(s) ==
    LET t == TrimSpaces(s)
        unsigned == IF Len(t) > 0 /\ t[1] \in {"-", "+"} THEN SubSeq(t, 2, Len(t)) ELSE t
    IN  IF Len(t) = 0 THEN JsInteger(0)
        ELSE IF Len(unsigned) > 0 /\ \A i \in 1..Len(unsigned) : IsDigit(unsigned[i])
             THEN JsInteger(IF t[1] = "-" THEN 0 - StrToNumber(unsigned)
                            ELSE StrToNumber(unsigned))
             ELSE NaN

\* const [hours, minutes] = parts.map(Number): minutes is undefined when
\* there is no second part, and hours * 60 + undefined is NaN
timeStringToMinutesOfString(timeString) ==
    LET parts == SplitOnColon(timeString)
        hours == JsNumber(parts[1])
        minutes == IF Len(parts) >= 2 THEN JsNumber(parts[2]) ELSE NaN
    IN  [kind |-> "return",
         value |-> IF hours.kind = "NaN" \/ minutes.kind = "NaN" THEN NaN
                   ELSE JsInteger(hours.value * 60 + minutes.value)]

calculateDuration_Strict(start, end) ==
    LET startMinutes == timeStringToMinutes(start)
        endMinutes == timeStringToMinutes(end)
    IN  IF endMinutes <= startMinutes
        THEN endMinutes + DayMinutes - startMinutes
        ELSE endMinutes - startMinutes

calculateDuration(start, end) ==
    LET startMinutes == timeStringToMinutes(start)
        endMinutes == timeStringToMinutes(end)
    IN  IF endMinutes < startMinutes
        THEN endMinutes + DayMinutes - startMinutes
        ELSE endMinutes - startMinutes

-----------------------------------------------------------------------------
(* utils/timeUtils: the interval algebra *)

expandRangeToSegments(range) ==
    LET start == timeStringToMinutes(range.start)
        end == timeStringToMinutes(range.end)
        totalMinutes == DayMinutes
    IN  IF end > start THEN <<[start |-> start, end |-> end]>>
        ELSE SelectSeq(<<[start |-> start, end |-> totalMinutes],
                         [start |-> 0, end |-> end]>>,
                       LAMBDA segment : segment.start # segment.end)

doTimeRangesOverlap_Closed(range1, range2) ==
    LET segments1 == expandRangeToSegments(range1)
        segments2 == expandRangeToSegments(range2)
    IN  \E i \in 1..Len(segments1) : \E j \in 1..Len(segments2) :
            /\ segments1[i].start <= segments2[j].end
            /\ segments2[j].start <= segments1[i].end

doTimeRangesOverlap(range1, range2) ==
    LET segments1 == expandRangeToSegments(range1)
        segments2 == expandRangeToSegments(range2)
    IN  \E i \in 1..Len(segments1) : \E j \in 1..Len(segments2) :
            /\ segments1[i].start < segments2[j].end
            /\ segments2[j].start < segments1[i].end

\* the messages of validateTimeBlock, as sequences of string pieces
NoMessage == <<>>
DurationMessage == <<"End time must be after start time">>
OverlapMessage(block) ==
    <<"Overlaps with \"", block.label, "\" (">> \o block.startTime
        \o <<" - ">> \o block.endTime \o <<")">>

\* the for loop of validateTimeBlock from index i on
RECURSIVE ScanExisting(_, _, _, _)
ScanExisting(newBlock, existingBlocks, excludeId, i) ==
    IF i > Len(existingBlocks) THEN [valid |-> TRUE, message |-> NoMessage]
    ELSE LET block == existingBlocks[i] IN
         IF excludeId # Null /\ Some(block.id) = excludeId
         THEN ScanExisting(newBlock, existingBlocks, excludeId, i + 1)
         ELSE IF doTimeRangesOverlap(
                     [start |-> newBlock.startTime, end |-> newBlock.endTime],
                     [start |-> block.startTime, end |-> block.endTime])
              THEN [valid |-> FALSE, message |-> OverlapMessage(block)]
              ELSE ScanExisting(newBlock, existingBlocks, excludeId, i + 1)

validateTimeBlock_NoDuration(newBlock, existingBlocks, excludeId) ==
    ScanExisting(newBlock, existingBlocks, excludeId, 1)

validateTimeBlock_NoExclude(newBlock, existingBlocks, excludeId) ==
    IF calculateDuration(newBlock.startTime, newBlock.endTime) <= 0
    THEN [valid |-> FALSE, message |-> DurationMessage]
    ELSE ScanExisting(newBlock, existingBlocks, Null, 1)

validateTimeBlock_ScanFirst(newBlock, existingBlocks, excludeId) ==
    LET scan == ScanExisting(newBlock, existingBlocks, excludeId, 1) IN
    IF ~scan.valid THEN scan
    ELSE IF calculateDuration(newBlock.startTime, newBlock.endTime) <= 0
         THEN [valid |-> FALSE, message |-> DurationMessage]
         ELSE scan

validateTimeBlock(newBlock, existingBlocks, excludeId) ==
    LET duration == calculateDuration(newBlock.startTime, newBlock.endTime) IN
    IF duration <= 0
    THEN [valid |-> FALSE, message |-> DurationMessage]
    ELSE ScanExisting(newBlock, existingBlocks, excludeId, 1)

\* stable insertion of block b into a list sorted by start time
RECURSIVE InsertSorted(_, _)
InsertSorted(sorted, b) ==
    IF Len(sorted) = 0 THEN <<b>>
    ELSE IF timeStringToMinutes(sorted[Len(sorted)].startTime)
              - timeStringToMinutes(b.startTime) <= 0
         THEN Append(sorted, b)
         ELSE Append(InsertSorted(SubSeq(sorted, 1, Len(sorted) - 1), b),
                     sorted[Len(sorted)])

\* [...blocks].sort(by start time): Array.prototype.sort is stable
RECURSIVE sortTimeBlocks(_)
sortTimeBlocks(blocks) ==
    IF Len(blocks) = 0 THEN <<>>
    ELSE InsertSorted(sortTimeBlocks(SubSeq(blocks, 1, Len(blocks) - 1)),
                      blocks[Len(blocks)])

-----------------------------------------------------------------------------
(* Inputs of the pure functions *)

\* the clock string "HH:MM" of hour h and minute m, written digit by digit
Clock(h, m) ==
    <<DigitChar(h \div 10), DigitChar(h % 10), ":",
      DigitChar(m \div 10), DigitChar(m % 10)>>
ClockOf(t) == Clock(t \div 60, t % 60)

\* raw minute values handed to the codec
RawMinutes == 0..(DayMinutes - 1)

\* minutes of day (multiples of 5) the interval functions are called with:
\* both sides of midnight and the times of the spec's examples
SampleTimes == {0, 5, 30, 60, 90, 600, 660, 1380, 1435}
ValidateTimes == {0, 30, 600, 660, 1380}

Intervals(times) == [start : times, end : times]

SampleBlock(iv, id) ==
    [id |-> id, startTime |-> ClockOf(iv.start), endTime |-> ClockOf(iv.end),
     label |-> "Work", color |-> "#f87171", order |-> id - 1]

\* a minute m of the day lies in the circular half-open interval iv; an
\* interval with start = end is expanded by the code to the whole day
Covers(iv, m) ==
    IF iv.end > iv.start THEN iv.start <= m /\ m < iv.end
    ELSE m >= iv.start \/ m < iv.end

\* the first minutes of the 288 five-minute slots of the day
SlotMinutes == {5 * k : k \in 0..((DayMinutes \div 5) - 1)}

\* two intervals of the 5-minute grid share a minute (then a whole slot)
SharesMinute(a, b) == \E m \in SlotMinutes : Covers(a, m) /\ Covers(b, m)

\* collections a schedule can hold: blocks of positive duration, no two
\* sharing a minute, in any order, with distinct ids
ExistingLists ==
    UNION { { f \in [1..n -> {iv \in Intervals(ValidateTimes) : iv.start # iv.end}] :
                \A i, j \in 1..n : i < j => ~SharesMinute(f[i], f[j]) }
            : n \in 0..MaxExisting }

\* strings handed to timeStringToMinutes: clock strings, and strings that
\* are not "HH:MM" with HH in 00..23 and MM in 00..59
ParseStrings ==
    {Clock(0, 0), Clock(10, 30), Clock(23, 55),
     <<>>,
     <<"1", "2">>,
     <<"a", "b", ":", "c", "d">>,
     <<"1", "2", ":">>,
     <<":", "3", "0">>,
     <<"2", "5", ":", "0", "0">>,
     <<"1", "2", ":", "6", "0">>,
     <<"1", ":", "2", ":", "3">>,
     <<"-", "1", ":", "3", "0">>,
     <<"1", "0", ":", "3", "o">>,
     <<" ", "9", ":", "0", "5">>}

CodecCalls ==
    {[op |-> "snap", m |-> m] : m \in RawMinutes}
    \cup {[op |-> "parse", s |-> str] : str \in ParseStrings}
    \cup {[op |-> "roundTrip", m |-> m] : m \in RawMinutes}
    \cup {[op |-> "duration", iv |-> iv] : iv \in Intervals(SampleTimes)}
    \cup {[op |-> "segments", iv |-> iv] : iv \in Intervals(SampleTimes)}
    \cup {[op |-> "overlap", a |-> a, b |-> b] :
              a \in Intervals(SampleTimes), b \in Intervals(SampleTimes)}
    \cup {[op |-> "validate", candidate |-> c, existing |-> ex, excludeId |-> x] :
              c \in Intervals(ValidateTimes), ex \in ExistingLists,
              x \in {Null} \cup {Some(i) : i \in 1..MaxExisting}}

NoCall == [op |-> "none"]

-----------------------------------------------------------------------------
(* The state after construction *)

InitDial ==
    /\ isDragging = FALSE
    /\ dragStart = Null
    /\ dragProgress = 0
    /\ hasMovedEnough = FALSE
    /\ lastDragMinutes = Null

InitEditor ==
    /\ timeBlocks = <<>>
    /\ pendingBlock = Null
    /\ editingBlock = Null
    /\ showLabelModal = FALSE

InitObserved ==
    /\ event = "init"
    /\ created = Null
    /\ alertMsg = Null
    /\ gesture = <<>>
    /\ domEvent = "none"
    /\ defaultPrevented = FALSE
    /\ blockCreatedCalls = 0
    /\ replacedSession = FALSE

\* the Timeline's useState cells before any pointer-down
TimelineIdle ==
    [isDragging |-> FALSE, dragStart |-> Null, dragEnd |-> Null,
     dragStartPixel |-> Null, hasMovedEnough |-> FALSE]

\* the editor opens on the circular dial
InitSurface ==
    /\ viewMode = "circular"
    /\ timeline = TimelineIdle

\* no schedule read is awaited
InitLoad == scheduleLoad = <<>>

\* a slice of the pie before it is labeled
UnlabeledSlice == [color |-> "#e0e0e0", label |-> ""]

\* 24 * (60 / timeIncrement): 24, 48 or 96 slices
TotalSlices(timeIncrement) == 24 * (60 \div timeIncrement)

\* Array(totalSlices).fill(0).map(() => ({ color: '#e0e0e0', label: '' }))
BlankSlices(totalSlices) == [i \in 1..totalSlices |-> UnlabeledSlice]

\* DayChart's useState cells on mount: one-hour slices, nothing selected
InitChart ==
    dayChart = [timeIncrement |-> 60, slices |-> BlankSlices(TotalSlices(60)),
                selectedColor |-> "#f87171",
                isDragging |-> FALSE, startIndex |-> Null, endIndex |-> Null,
                showModal |-> FALSE, labelInput |-> ""]

\* a signed-in user without schedules yet, on the editor page
InitSchedules ==
    /\ storedSchedules = {}
    /\ currentRoute = "dashboard"
    /\ currentScheduleId = Null
    /\ schedules = {}
    /\ isCreating = FALSE
    /\ defaultSchedules = {}

-----------------------------------------------------------------------------
(* The pure functions applied to one input each *)

InitCodec ==
    /\ InitDial /\ InitEditor /\ InitObserved
    /\ InitSchedules /\ InitSurface /\ InitLoad /\ InitChart
    /\ call \in CodecCalls
    /\ ret = Null

Apply(op, result) ==
    /\ call.op = op
    /\ ret = Null
    /\ ret' = Some(result)
    /\ UNCHANGED <<call, dialVars, editorVars, event, created, alertMsg, gesture,
                   domVars, scheduleVars, surfaceVars, loadVars, chartVars>>

ApplySnap == Apply("snap", snapToFiveMinutes(call.m))

ApplyRoundTrip ==
    Apply("roundTrip",
          timeStringToMinutes(minutesToTimeString(snapToFiveMinutes(call.m))))

ApplyDuration ==
    Apply("duration", calculateDuration(ClockOf(call.iv.start), ClockOf(call.iv.end)))

ApplySegments ==
    Apply("segments",
          expandRangeToSegments([start |-> ClockOf(call.iv.start),
                                 end |-> ClockOf(call.iv.end)]))

ApplyOverlap ==
    Apply("overlap",
          doTimeRangesOverlap([start |-> ClockOf(call.a.start), end |-> ClockOf(call.a.end)],
                              [start |-> ClockOf(call.b.start), end |-> ClockOf(call.b.end)]))

ExistingBlocks(ex) == [i \in 1..Len(ex) |-> SampleBlock(ex[i], i)]

ApplyValidate ==
    Apply("validate",
          validateTimeBlock([startTime |-> ClockOf(call.candidate.start),
                             endTime |-> ClockOf(call.candidate.end)],
                            ExistingBlocks(call.existing), call.excludeId))

ApplyParse == Apply("parse", timeStringToMinutesOfString(call.s))

NextCodec ==
    \/ ApplySnap
    \/ ApplyParse
    \/ ApplyRoundTrip
    \/ ApplyDuration
    \/ ApplySegments
    \/ ApplyOverlap
    \/ ApplyValidate

SpecCodec == InitCodec /\ [][NextCodec]_vars

Returned(op) == call.op = op /\ ret # Null

-----------------------------------------------------------------------------
(* components/CircularChart: the dial's pointer handlers *)

\* Angles are counted in quarter degrees, so that one unit of angle is one
\* minute of the day: (normalizedAngle / 360) * (24 * 60) is the identity on
\* the normalized angle. getAngleFromEvent returns atan2 + 90 degrees, an
\* angle in (-90, 270] degrees.
QuarterTurns == 4 * 360

angleToMinutes(angle) ==
    LET normalizedAngle == ((angle % QuarterTurns) + QuarterTurns) % QuarterTurns
        minutes == normalizedAngle
    IN  snapToFiveMinutes(minutes)

\* the delta of handleMouseMove, turned to the shortest way round
ShortestDiff_Raw(minutes, lastMinutes) == minutes - lastMinutes

ShortestDiff(minutes, lastMinutes) ==
    LET diff == minutes - lastMinutes
        d1 == IF diff > HalfDay THEN diff - DayMinutes ELSE diff
    IN  IF d1 < -HalfDay THEN d1 + DayMinutes ELSE d1

\* the updater of setDragProgress
NextProgress(prev, diff) == Max(0, Min(DayMinutes, prev + diff))

-----------------------------------------------------------------------------
(* components/Dashboard: the editor's block handlers *)

\* what the label dialog is saved with: a trimmed non-blank label and one of
\* the availableColors
LabelChoices == {<<"Work", "#f87171">>, <<"Sleep", "#60a5fa">>}

\* crypto.randomUUID(): an id no block in use carries
UsedIds ==
    {timeBlocks[i].id : i \in 1..Len(timeBlocks)}
        \cup {editingBlock[i].id : i \in 1..Len(editingBlock)}
FreshId == CHOOSE n \in 1..(Cardinality(UsedIds) + 1) : n \notin UsedIds

\* what an editor handler leaves to observe: no onBlockCreated call, no
\* alert, no drag session, no pointer event on the dial
Observe(name) ==
    /\ event' = name
    /\ created' = Null
    /\ alertMsg' = Null
    /\ gesture' = <<>>
    /\ domEvent' = "none"
    /\ defaultPrevented' = FALSE
    /\ blockCreatedCalls' = 0
    /\ replacedSession' = FALSE

\* handleBlockCreated(startTime, endTime), called by a surface on release
HandleBlockCreated_NoValidation(startTime, endTime) ==
    /\ pendingBlock' = Some([startTime |-> startTime, endTime |-> endTime])
    /\ showLabelModal' = TRUE
    /\ alertMsg' = Null
    /\ UNCHANGED <<timeBlocks, editingBlock>>

HandleBlockCreated_AlertAndOpen(startTime, endTime) ==
    LET validation ==
            validateTimeBlock([startTime |-> startTime, endTime |-> endTime],
                              timeBlocks, Null)
    IN  /\ alertMsg' = IF ~validation.valid THEN Some(validation.message) ELSE Null
        /\ pendingBlock' = Some([startTime |-> startTime, endTime |-> endTime])
        /\ showLabelModal' = TRUE
        /\ UNCHANGED <<timeBlocks, editingBlock>>

HandleBlockCreated(startTime, endTime) ==
    LET validation ==
            validateTimeBlock([startTime |-> startTime, endTime |-> endTime],
                              timeBlocks, Null)
    IN  IF ~validation.valid
        THEN /\ alertMsg' = Some(validation.message)
             /\ UNCHANGED editorVars
        ELSE /\ pendingBlock' = Some([startTime |-> startTime, endTime |-> endTime])
             /\ showLabelModal' = TRUE
             /\ alertMsg' = Null
             /\ UNCHANGED <<timeBlocks, editingBlock>>

\* handleSaveBlock whose edit branch maps every block
HandleSaveBlock_EveryBlock(label, color) ==
    /\ showLabelModal
    /\ pendingBlock # Null \/ editingBlock # Null
    /\ IF editingBlock # Null
       THEN /\ timeBlocks' =
                   [i \in 1..Len(timeBlocks) |->
                       [timeBlocks[i] EXCEPT !.label = label, !.color = color]]
            /\ editingBlock' = Null
            /\ UNCHANGED pendingBlock
       ELSE /\ Len(timeBlocks) < MaxBlocks
            /\ LET newBlock ==
                       [id |-> FreshId,
                        startTime |-> pendingBlock[1].startTime,
                        endTime |-> pendingBlock[1].endTime,
                        label |-> label,
                        color |-> color,
                        order |-> Len(timeBlocks)]
               IN  timeBlocks' = sortTimeBlocks(Append(timeBlocks, newBlock))
            /\ pendingBlock' = Null
            /\ UNCHANGED editingBlock
    /\ showLabelModal' = FALSE
    /\ Observe(IF editingBlock # Null THEN "editBlock" ELSE "saveBlock")
    /\ UNCHANGED <<dialVars, codecVars, scheduleVars, surfaceVars, loadVars, chartVars>>

\* LabelModal.handleSave with a non-blank label -> handleSaveBlock
HandleSaveBlock(label, color) ==
    /\ showLabelModal
    /\ pendingBlock # Null \/ editingBlock # Null
    /\ IF editingBlock # Null
       THEN /\ timeBlocks' =
                   [i \in 1..Len(timeBlocks) |->
                       IF timeBlocks[i].id = editingBlock[1].id
                       THEN [timeBlocks[i] EXCEPT !.label = label, !.color = color]
                       ELSE timeBlocks[i]]
            /\ editingBlock' = Null
            /\ UNCHANGED pendingBlock
       ELSE /\ Len(timeBlocks) < MaxBlocks
            /\ LET newBlock ==
                       [id |-> FreshId,
                        startTime |-> pendingBlock[1].startTime,
                        endTime |-> pendingBlock[1].endTime,
                        label |-> label,
                        color |-> color,
                        order |-> Len(timeBlocks)]
               IN  timeBlocks' = sortTimeBlocks(Append(timeBlocks, newBlock))
            /\ pendingBlock' = Null
            /\ UNCHANGED editingBlock
    /\ showLabelModal' = FALSE
    /\ Observe(IF editingBlock # Null THEN "editBlock" ELSE "saveBlock")
    /\ UNCHANGED <<dialVars, codecVars, scheduleVars, surfaceVars, loadVars, chartVars>>

\* the modal's delete button, offered while a block is edited
HandleDeleteBlock ==
    /\ showLabelModal
    /\ editingBlock # Null
    /\ timeBlocks' = SelectSeq(timeBlocks, LAMBDA b : b.id # editingBlock[1].id)
    /\ editingBlock' = Null
    /\ showLabelModal' = FALSE
    /\ Observe("deleteBlock")
    /\ UNCHANGED <<pendingBlock, dialVars, codecVars, scheduleVars, surfaceVars, loadVars, chartVars>>

\* a click on a rendered block; the browser sends it after the pointer-up
\* that ended the session, and not through the open dialog's overlay
HandleBlockClick(i) ==
    /\ ~showLabelModal
    /\ ~isDragging
    /\ i \in 1..Len(timeBlocks)
    /\ editingBlock' = Some(timeBlocks[i])
    /\ showLabelModal' = TRUE
    /\ Observe("blockClick")
    /\ UNCHANGED <<timeBlocks, pendingBlock, dialVars, codecVars, scheduleVars, surfaceVars, loadVars, chartVars>>

\* the modal's onClose
CloseModal ==
    /\ showLabelModal
    /\ pendingBlock # Null \/ editingBlock # Null
    /\ showLabelModal' = FALSE
    /\ pendingBlock' = Null
    /\ editingBlock' = Null
    /\ Observe("closeModal")
    /\ UNCHANGED <<timeBlocks, dialVars, codecVars, scheduleVars, surfaceVars, loadVars, chartVars>>

\* "Clear all", confirmed
HandleClearAllBlocks ==
    /\ ~showLabelModal
    /\ timeBlocks' = <<>>
    /\ Observe("clearAll")
    /\ UNCHANGED <<pendingBlock, editingBlock, showLabelModal, dialVars, codecVars,
                   scheduleVars, surfaceVars, loadVars, chartVars>>

-----------------------------------------------------------------------------
(* The dial's handlers, each with the calls it makes into the editor *)

HandleMouseDown_KeepProgress(angle) ==
    /\ ~showLabelModal
    /\ LET minutes == angleToMinutes(angle) IN
           /\ dragStart' = Some(minutes)
           /\ lastDragMinutes' = Some(minutes)
           /\ isDragging' = TRUE
    /\ IF isDragging
       THEN UNCHANGED <<dragProgress, hasMovedEnough>>
       ELSE dragProgress' = 0 /\ hasMovedEnough' = FALSE
    /\ event' = "mouseDown"
    /\ created' = Null
    /\ alertMsg' = Null
    /\ UNCHANGED <<editorVars, codecVars, scheduleVars, surfaceVars, loadVars, chartVars>>

\* handleMouseDown / handleTouchStart at a point of the draggable annulus
HandleMouseDown(angle) ==
    /\ ~showLabelModal
    /\ LET minutes == angleToMinutes(angle) IN
           /\ dragStart' = Some(minutes)
           /\ dragProgress' = 0
           /\ hasMovedEnough' = FALSE
           /\ lastDragMinutes' = Some(minutes)
           /\ isDragging' = TRUE
    /\ event' = "mouseDown"
    /\ created' = Null
    /\ alertMsg' = Null
    /\ UNCHANGED <<editorVars, codecVars, scheduleVars, surfaceVars, loadVars, chartVars>>

\* handleMouseMove, the document's mousemove / touchmove listener
HandleMouseMove(angle) ==
    /\ isDragging
    /\ dragStart # Null
    /\ LET minutes == angleToMinutes(angle)
           lastMinutes == IF lastDragMinutes # Null THEN lastDragMinutes[1] ELSE minutes
           diff == ShortestDiff(minutes, lastMinutes)
           next == NextProgress(dragProgress, diff)
       IN  /\ dragProgress' = next
           /\ hasMovedEnough' = (hasMovedEnough \/ next >= DRAG_THRESHOLD_MINUTES)
           /\ lastDragMinutes' = Some(minutes)
    /\ event' = "mouseMove"
    /\ created' = Null
    /\ alertMsg' = Null
    /\ UNCHANGED <<isDragging, dragStart, editorVars, codecVars, scheduleVars, surfaceVars, loadVars, chartVars>>

\* the condition under which handleMouseUp calls onBlockCreated
Commits_AnyRelease == isDragging /\ dragStart # Null

Commits == isDragging /\ hasMovedEnough /\ dragStart # Null /\ dragProgress >= 5

\* the end time handleMouseUp passes on
CommitEnd == minutesToTimeString((dragStart[1] + dragProgress) % DayMinutes)

\* handleMouseUp without setHasMovedEnough(false)
HandleMouseUp_KeepMoved ==
    /\ isDragging \/ ~showLabelModal
    /\ IF Commits
       THEN LET startTime == minutesToTimeString(dragStart[1])
                endTime == CommitEnd
            IN  /\ created' = Some(<<startTime, endTime>>)
                /\ HandleBlockCreated(startTime, endTime)
       ELSE /\ created' = Null
            /\ alertMsg' = Null
            /\ UNCHANGED editorVars
    /\ lastDragMinutes' = Null
    /\ isDragging' = FALSE
    /\ dragStart' = Null
    /\ dragProgress' = 0
    /\ UNCHANGED hasMovedEnough
    /\ event' = "mouseUp"
    /\ UNCHANGED <<gesture, codecVars, scheduleVars, surfaceVars, loadVars, chartVars>>

\* handleMouseUp: the svg's onMouseUp / onMouseLeave and the document's
\* mouseup / touchend listener
HandleMouseUp ==
    /\ isDragging \/ ~showLabelModal
    /\ IF Commits
       THEN LET startTime == minutesToTimeString(dragStart[1])
                endTime == CommitEnd
            IN  /\ created' = Some(<<startTime, endTime>>)
                /\ HandleBlockCreated(startTime, endTime)
       ELSE /\ created' = Null
            /\ alertMsg' = Null
            /\ UNCHANGED editorVars
    /\ lastDragMinutes' = Null
    /\ isDragging' = FALSE
    /\ dragStart' = Null
    /\ dragProgress' = 0
    /\ hasMovedEnough' = FALSE
    /\ event' = "mouseUp"
    /\ UNCHANGED <<gesture, codecVars, scheduleVars, surfaceVars, loadVars, chartVars>>

-----------------------------------------------------------------------------
(* The editor driven from the dial *)

\* pointer positions on the dial, in quarter degrees: the thirds of the day
ThirdAngles == {0, 480, 960}

Init ==
    /\ InitDial /\ InitEditor /\ InitObserved
    /\ InitSchedules /\ InitSurface /\ InitLoad /\ InitChart
    /\ call = NoCall
    /\ ret = Null

Next ==
    \/ \E angle \in ThirdAngles :
          HandleMouseDown(angle) /\ UNCHANGED <<gesture, domVars>>
    \/ \E angle \in ThirdAngles :
          HandleMouseMove(angle) /\ UNCHANGED <<gesture, domVars>>
    \/ HandleMouseUp /\ UNCHANGED domVars
    \/ \E choice \in LabelChoices : HandleSaveBlock(choice[1], choice[2])
    \/ HandleDeleteBlock
    \/ \E i \in 1..MaxBlocks : HandleBlockClick(i)
    \/ CloseModal
    \/ HandleClearAllBlocks

Spec == Init /\ [][Next]_vars

-----------------------------------------------------------------------------
(* One drag session at a time on the dial, every raw pointer angle recorded *)

\* pointer positions on the dial, in quarter degrees: midnight from both
\* sides (-2 is 23:58 and snaps to 1440), the positions 10:00, 10:02, 10:04,
\* 10:06 of the spec's drag scenario, 22:00 (half the day from 10:00, a
\* delta of exactly 720 either way) and 02:00, which closes the circle
DialAngles == {-5, -2, 0, 3, 120, 600, 602, 604, 606, 1320}

\* the schedules the dial is shown with: none yet, or one block 00:00-08:00
DialSchedules ==
    {<<>>,
     <<[id |-> 1, startTime |-> Clock(0, 0), endTime |-> Clock(8, 0),
        label |-> "Sleep", color |-> "#60a5fa", order |-> 0]>>}

InitDialSpec ==
    /\ InitDial /\ InitObserved
    /\ InitSchedules /\ InitSurface /\ InitLoad /\ InitChart
    /\ timeBlocks \in DialSchedules
    /\ pendingBlock = Null
    /\ editingBlock = Null
    /\ showLabelModal = FALSE
    /\ call = NoCall
    /\ ret = Null

NextDial ==
    \/ \E angle \in DialAngles :
          /\ HandleMouseDown(angle)
          /\ gesture' = <<angle>>
          /\ UNCHANGED domVars
    \/ \E angle \in DialAngles :
          /\ Len(gesture) <= MaxMoves
          /\ HandleMouseMove(angle)
          /\ gesture' = Append(gesture, angle)
          /\ UNCHANGED domVars
    \/ HandleMouseUp /\ UNCHANGED domVars
    \/ CloseModal

SpecDial == InitDialSpec /\ [][NextDial]_vars

-----------------------------------------------------------------------------
(* The dial under the DOM events of mouse and touch *)

\* the useEffect on isDragging: handleMouseMove and handleMouseUp listen on
\* the document exactly while the committed render has isDragging; the
\* render that follows a handler and the effect's cleanup run before the
\* event reaches the next target on its way up to the document
DocumentHears_NoCleanup(dragging) == TRUE

DocumentHears(dragging) == dragging

\* the preventDefault() calls of handleMouseMove's updater: for a touch
\* event, when this move reaches the threshold or the render already had
\* hasMovedEnough
PreventsDefault_Always(touch, movedEnough, next) == touch

PreventsDefault(touch, movedEnough, next) ==
    \/ ~movedEnough /\ next >= DRAG_THRESHOLD_MINUTES /\ touch
    \/ movedEnough /\ touch

\* pointer positions on the dial, in quarter degrees: 00:00, 00:02 (snaps
\* back to 00:00, a move below the threshold), 00:08 (snaps to 00:10),
\* 10:00 and 20:00 (three moves of 600 minutes close the circle)
PointerAngles == {0, 2, 8, 600, 1200}

\* onMouseDown / onTouchStart of the svg
SvgPointerDown(type, angle) ==
    /\ viewMode = "circular"
    /\ HandleMouseDown(angle)
    /\ domEvent' = type
    /\ defaultPrevented' = FALSE
    /\ blockCreatedCalls' = 0
    /\ replacedSession' = isDragging
    /\ UNCHANGED gesture

\* mousemove / touchmove at the document
DocumentPointerMove(type, angle) ==
    /\ viewMode = "circular"
    /\ DocumentHears(isDragging)
    /\ HandleMouseMove(angle)
    /\ domEvent' = type
    /\ defaultPrevented' =
           PreventsDefault(type = "touchmove", hasMovedEnough, dragProgress')
    /\ UNCHANGED <<gesture, blockCreatedCalls, replacedSession>>

\* a mouseup over the svg: the svg's onMouseUp runs handleMouseUp, React
\* renders, and the event goes on to the document, where the listener of the
\* render before the release runs if it is still registered
SvgMouseUp ==
    /\ viewMode = "circular"
    /\ HandleMouseUp
    /\ domEvent' = "mouseup"
    /\ defaultPrevented' = FALSE
    /\ blockCreatedCalls' =
           blockCreatedCalls
             + (IF Commits THEN 1 ELSE 0)
             + (IF DocumentHears(isDragging') /\ Commits THEN 1 ELSE 0)
    /\ UNCHANGED replacedSession

\* a mouseup outside the svg, or a touchend: the document's listener alone
DocumentPointerUp(type) ==
    /\ viewMode = "circular"
    /\ DocumentHears(isDragging)
    /\ HandleMouseUp
    /\ domEvent' = type
    /\ defaultPrevented' = FALSE
    /\ blockCreatedCalls' = blockCreatedCalls + (IF Commits THEN 1 ELSE 0)
    /\ UNCHANGED replacedSession

\* the pointer leaves the svg: onMouseLeave is handleMouseUp
SvgMouseLeave ==
    /\ viewMode = "circular"
    /\ HandleMouseUp
    /\ domEvent' = "mouseleave"
    /\ defaultPrevented' = FALSE
    /\ blockCreatedCalls' = blockCreatedCalls + (IF Commits THEN 1 ELSE 0)
    /\ UNCHANGED replacedSession

\* the browser cancels the touch of a session: neither the svg nor the
\* document has a touchcancel listener
TouchCancel ==
    /\ viewMode = "circular"
    /\ isDragging
    /\ domEvent \in {"touchstart", "touchmove"}
    /\ domEvent' = "touchcancel"
    /\ defaultPrevented' = FALSE
    /\ event' = "none"
    /\ created' = Null
    /\ alertMsg' = Null
    /\ UNCHANGED <<dialVars, editorVars, gesture, blockCreatedCalls,
                   replacedSession, codecVars, scheduleVars, surfaceVars, loadVars, chartVars>>

-----------------------------------------------------------------------------
(* The linear surface (components/Timeline), shown instead of the dial when *)
(* viewMode is 'linear'.  A pointer position is its clientY relative to the *)
(* top of the timeline, in pixels.                                          *)

\* pixelToMinutes(pixelY): the fraction of the height, as minutes clamped
\* to [0, 1439], snapped with Math.round(minutes / 5) * 5
pixelToMinutes(pixelY) ==
    LET scaled == pixelY * DayMinutes          \* minutes * TimelineHeight
        clamped == Max(0, Min((DayMinutes - 1) * TimelineHeight, scaled))
    IN  ((2 * clamped + 5 * TimelineHeight) \div (10 * TimelineHeight)) * 5

\* handleMouseDown / handleTouchStart of the timeline
TimelineHandleMouseDown(pixelY) ==
    /\ ~showLabelModal
    /\ LET minutes == pixelToMinutes(pixelY) IN
       timeline' = [isDragging |-> TRUE, dragStart |-> Some(minutes),
                    dragEnd |-> Some(minutes), dragStartPixel |-> Some(pixelY),
                    hasMovedEnough |-> FALSE]
    /\ event' = "mouseDown"
    /\ created' = Null
    /\ alertMsg' = Null
    /\ UNCHANGED <<dialVars, editorVars, codecVars, scheduleVars, viewMode, loadVars, chartVars>>

\* whether a move at pixelY is still short of the threshold: the handlers
\* return on it without changing anything
TimelineBelowThreshold(pixelY) ==
    /\ ~timeline.hasMovedEnough
    /\ timeline.dragStartPixel # Null
    /\ LET d == pixelY - timeline.dragStartPixel[1]
           distance == IF d < 0 THEN -d ELSE d
       IN  distance < DRAG_THRESHOLD

\* the preventDefault() calls of handleTouchMove
TimelinePreventsDefault(pixelY) ==
    /\ ~TimelineBelowThreshold(pixelY)
    /\ \/ ~timeline.hasMovedEnough /\ timeline.dragStartPixel # Null
       \/ timeline.hasMovedEnough

\* handleMouseMove / handleTouchMove, the document's listeners
TimelineHandleMove(pixelY) ==
    /\ timeline.isDragging
    /\ IF TimelineBelowThreshold(pixelY)
       THEN UNCHANGED timeline
       ELSE timeline' =
              [timeline EXCEPT
                 !.hasMovedEnough = (@ \/ timeline.dragStartPixel # Null),
                 !.dragEnd = Some(pixelToMinutes(pixelY))]
    /\ event' = "mouseMove"
    /\ created' = Null
    /\ alertMsg' = Null
    /\ UNCHANGED <<dialVars, editorVars, codecVars, scheduleVars, viewMode, loadVars, chartVars>>

\* the condition under which the timeline's handleMouseUp calls onBlockCreated
TimelineCommits ==
    /\ timeline.hasMovedEnough
    /\ timeline.dragStart # Null
    /\ timeline.dragEnd # Null
    /\ Max(timeline.dragStart[1], timeline.dragEnd[1])
         - Min(timeline.dragStart[1], timeline.dragEnd[1]) >= 5

\* handleMouseUp of the timeline, the document's mouseup / touchend listener
TimelineHandleMouseUp ==
    /\ IF TimelineCommits
       THEN LET startTime ==
                  minutesToTimeString(Min(timeline.dragStart[1], timeline.dragEnd[1]))
                endTime ==
                  minutesToTimeString(Max(timeline.dragStart[1], timeline.dragEnd[1]))
            IN  /\ created' = Some(<<startTime, endTime>>)
                /\ HandleBlockCreated(startTime, endTime)
       ELSE /\ created' = Null
            /\ alertMsg' = Null
            /\ UNCHANGED editorVars
    /\ timeline' = TimelineIdle
    /\ event' = "mouseUp"
    /\ UNCHANGED <<dialVars, gesture, codecVars, scheduleVars, viewMode, loadVars, chartVars>>

\* pointer positions on the timeline: the top, 4 and 12 pixels below it
\* (short of and past the threshold), the middle, the bottom edge
PixelYs == {0, 4, 12, 550, 1100}

\* onMouseDown / onTouchStart of the timeline
TimelinePointerDown(type, pixelY) ==
    /\ viewMode = "linear"
    /\ TimelineHandleMouseDown(pixelY)
    /\ domEvent' = type
    /\ defaultPrevented' = FALSE
    /\ blockCreatedCalls' = 0
    /\ replacedSession' = timeline.isDragging
    /\ UNCHANGED gesture

\* mousemove / touchmove at the document while the timeline drags
TimelinePointerMove(type, pixelY) ==
    /\ viewMode = "linear"
    /\ DocumentHears(timeline.isDragging)
    /\ TimelineHandleMove(pixelY)
    /\ domEvent' = type
    /\ defaultPrevented' = (type = "touchmove" /\ TimelinePreventsDefault(pixelY))
    /\ UNCHANGED <<gesture, blockCreatedCalls, replacedSession>>

\* mouseup / touchend at the document while the timeline drags
TimelinePointerUp(type) ==
    /\ viewMode = "linear"
    /\ DocumentHears(timeline.isDragging)
    /\ TimelineHandleMouseUp
    /\ domEvent' = type
    /\ defaultPrevented' = FALSE
    /\ blockCreatedCalls' = blockCreatedCalls + (IF TimelineCommits THEN 1 ELSE 0)
    /\ UNCHANGED replacedSession

\* the browser cancels the touch of a timeline session: nothing listens
TimelineTouchCancel ==
    /\ viewMode = "linear"
    /\ timeline.isDragging
    /\ domEvent \in {"touchstart", "touchmove"}
    /\ domEvent' = "touchcancel"
    /\ defaultPrevented' = FALSE
    /\ event' = "none"
    /\ created' = Null
    /\ alertMsg' = Null
    /\ UNCHANGED <<dialVars, editorVars, gesture, blockCreatedCalls,
                   replacedSession, codecVars, scheduleVars, surfaceVars, loadVars, chartVars>>

\* the Linear / Circular toggle of the editor: the surface shown is replaced
\* and the state of the one unmounted is lost
SetViewMode(mode) ==
    /\ ~showLabelModal
    /\ mode # viewMode
    /\ viewMode' = mode
    /\ timeline' = TimelineIdle
    /\ isDragging' = FALSE
    /\ dragStart' = Null
    /\ dragProgress' = 0
    /\ hasMovedEnough' = FALSE
    /\ lastDragMinutes' = Null
    /\ Observe("setViewMode")
    /\ UNCHANGED <<editorVars, codecVars, scheduleVars, loadVars, chartVars>>

ViewModes == {"linear", "circular"}

NextPointer ==
    \/ \E angle \in PointerAngles : SvgPointerDown("mousedown", angle)
    \/ \E angle \in PointerAngles : SvgPointerDown("touchstart", angle)
    \/ \E angle \in PointerAngles : DocumentPointerMove("mousemove", angle)
    \/ \E angle \in PointerAngles : DocumentPointerMove("touchmove", angle)
    \/ SvgMouseUp
    \/ DocumentPointerUp("mouseup")
    \/ DocumentPointerUp("touchend")
    \/ SvgMouseLeave
    \/ TouchCancel
    \/ \E pixelY \in PixelYs : TimelinePointerDown("mousedown", pixelY)
    \/ \E pixelY \in PixelYs : TimelinePointerDown("touchstart", pixelY)
    \/ \E pixelY \in PixelYs : TimelinePointerMove("mousemove", pixelY)
    \/ \E pixelY \in PixelYs : TimelinePointerMove("touchmove", pixelY)
    \/ TimelinePointerUp("mouseup")
    \/ TimelinePointerUp("touchend")
    \/ TimelineTouchCancel
    \/ \E mode \in ViewModes : SetViewMode(mode)
    \/ CloseModal

SpecPointer == InitDialSpec /\ [][NextPointer]_vars

-----------------------------------------------------------------------------
(* DayChart: the legend's merge of the slices of the pie *)

\* Slices are numbered from 0 as in the source; slices[i] of the source is
\* slices[i + 1] here. A range is a pair <<start, end>> of slice numbers.

\* the key `${label}__${color}` of the merged record
MergeKey(label, color) == label \o "__" \o color

\* the first loop of mergedGroupedLabels after the slices 0 .. k - 1
RECURSIVE RawGroups_KeepUnlabeled(_, _)
RawGroups_KeepUnlabeled(slices, k) ==
    IF k = 0 THEN <<>>
    ELSE LET rawGroups == RawGroups_KeepUnlabeled(slices, k - 1)
             i == k - 1
             n == Len(rawGroups)
         IN  IF i + 1 > Len(slices) THEN rawGroups
             ELSE LET curr == slices[i + 1] IN
                  IF /\ n > 0
                     /\ rawGroups[n].label = curr.label
                     /\ rawGroups[n].color = curr.color
                     /\ rawGroups[n].end = i - 1
                  THEN [rawGroups EXCEPT ![n].end = i]
                  ELSE Append(rawGroups, [label |-> curr.label, color |-> curr.color,
                                          start |-> i, end |-> i])

RECURSIVE RawGroups(_, _)
RawGroups(slices, k) ==
    IF k = 0 THEN <<>>
    ELSE LET rawGroups == RawGroups(slices, k - 1)
             i == k - 1
             n == Len(rawGroups)
         IN  IF i + 1 > Len(slices) \/ slices[i + 1].label = "" THEN rawGroups
             ELSE LET curr == slices[i + 1] IN
                  IF /\ n > 0
                     /\ rawGroups[n].label = curr.label
                     /\ rawGroups[n].color = curr.color
                     /\ rawGroups[n].end = i - 1
                  THEN [rawGroups EXCEPT ![n].end = i]
                  ELSE Append(rawGroups, [label |-> curr.label, color |-> curr.color,
                                          start |-> i, end |-> i])

\* the second loop: the merged record after the first k raw groups, its
\* entries in the order their keys were first set (the order of
\* Object.values)
RECURSIVE MergedByKey(_, _)
MergedByKey(rawGroups, k) ==
    IF k = 0 THEN <<>>
    ELSE LET merged == MergedByKey(rawGroups, k - 1)
             group == rawGroups[k]
             key == MergeKey(group.label, group.color)
             at == {e \in 1..Len(merged) : merged[e].key = key}
         IN  IF at = {}
             THEN Append(merged, [key |-> key, label |-> group.label,
                                  color |-> group.color,
                                  ranges |-> <<<<group.start, group.end>>>>])
             ELSE LET e == CHOOSE x \in at : TRUE IN
                  [merged EXCEPT ![e].ranges = Append(@, <<group.start, group.end>>)]

\* allIndices: the slice numbers of a list of ranges
AllIndices(ranges, totalSlices) ==
    UNION { IF ranges[r][1] <= ranges[r][2]
            THEN ranges[r][1]..ranges[r][2]
            ELSE (ranges[r][1]..(totalSlices - 1)) \cup (0..ranges[r][2])
            : r \in 1..Len(ranges) }

\* [...allIndices].sort((a, b) => a - b)
RECURSIVE SortedIndices(_)
SortedIndices(indices) ==
    IF indices = {} THEN <<>>
    ELSE LET least == CHOOSE x \in indices : \A y \in indices : x <= y
         IN  <<least>> \o SortedIndices(indices \ {least})

\* the inner while loop: the position the run that starts at position i of
\* sortedIndices ends at
RunEndPos_NoExtend(sortedIndices, i, totalSlices) == i

RECURSIVE RunEndPos(_, _, _)
RunEndPos(sortedIndices, i, totalSlices) ==
    IF /\ i + 1 <= Len(sortedIndices)
       /\ sortedIndices[i + 1] = (sortedIndices[i] + 1) % totalSlices
    THEN RunEndPos(sortedIndices, i + 1, totalSlices)
    ELSE i

\* the outer for loop: the ranges of the contiguous runs from position i on
RECURSIVE GroupRuns(_, _, _)
GroupRuns(sortedIndices, i, totalSlices) ==
    IF i > Len(sortedIndices) THEN <<>>
    ELSE LET j == RunEndPos(sortedIndices, i, totalSlices)
         IN  <<<<sortedIndices[i], sortedIndices[j]>>>>
                 \o GroupRuns(sortedIndices, j + 1, totalSlices)

\* the special case patch: a first range from slice 0 and a last range up
\* to the last slice become one range through the end of the day
PatchWrap_None(mergedRanges, totalSlices) == mergedRanges

PatchWrap(mergedRanges, totalSlices) ==
    LET n == Len(mergedRanges) IN
    IF /\ n >= 2
       /\ mergedRanges[1][1] = 0
       /\ mergedRanges[n][2] = totalSlices - 1
       /\ mergedRanges[1][1] = (mergedRanges[n][2] + 1) % totalSlices
    THEN LET startA == mergedRanges[n][1]
             endB == mergedRanges[1][2]
         IN  <<<<startA, endB>>>> \o SubSeq(mergedRanges, 2, n - 1)
    ELSE mergedRanges

mergedGroupedLabels(slices, totalSlices) ==
    LET rawGroups == RawGroups(slices, totalSlices)
        merged == MergedByKey(rawGroups, Len(rawGroups))
    IN  [e \in 1..Len(merged) |->
            LET sortedIndices == SortedIndices(AllIndices(merged[e].ranges, totalSlices))
                mergedRanges == GroupRuns(sortedIndices, 1, totalSlices)
            IN  [label |-> merged[e].label, color |-> merged[e].color,
                 ranges |-> PatchWrap(mergedRanges, totalSlices)]]

\* slices of the pie: the unlabeled grey slice of a fresh chart, a slice
\* coloured with an empty label, and labeled slices of two labels and colors
SliceChoices ==
    {UnlabeledSlice,
     [color |-> "#f87171", label |-> ""],
     [color |-> "#f87171", label |-> "A"],
     [color |-> "#60a5fa", label |-> "A"],
     [color |-> "#f87171", label |-> "B"]}

\* the legend is rendered when slices.length = totalSlices
MergeCalls ==
    {[op |-> "merge", slices |-> sl] :
        sl \in UNION {[1..n -> SliceChoices] : n \in 1..MaxSlices}}

InitMerge ==
    /\ InitDial /\ InitEditor /\ InitObserved
    /\ InitSchedules /\ InitSurface /\ InitLoad /\ InitChart
    /\ call \in MergeCalls
    /\ ret = Null

ApplyMerge == Apply("merge", mergedGroupedLabels(call.slices, Len(call.slices)))

NextMerge == ApplyMerge

SpecMerge == InitMerge /\ [][NextMerge]_vars

-----------------------------------------------------------------------------
(* The stored schedules of one signed-in user: SchedulesPage, the editor's *)
(* save and "New Schedule" buttons, and services/scheduleService.          *)
(* A document is modelled by its id; every handler runs to completion      *)
(* before the next one starts, and no document holds blocks, the editor    *)
(* of this specification being left empty.                                 *)

\* doc(collection(db, 'schedules')).id: an id no document carries and the
\* editor does not remember
FreshScheduleId ==
    CHOOSE n \in 1..(MaxStored + 1) :
        n \notin storedSchedules /\ Some(n) # currentScheduleId

\* saveSchedule(userId, scheduleData): writes a new document
saveSchedule(docs) == docs \cup {FreshScheduleId}

\* duplicateSchedule(scheduleId, userId, newName): copies an existing one
duplicateSchedule(scheduleId, docs) ==
    IF scheduleId \in docs THEN saveSchedule(docs) ELSE docs

\* deleteSchedule(scheduleId, userId)
deleteSchedule(scheduleId, docs) == docs \ {scheduleId}

\* the documents with isDefault true after saveSchedule(userId, {isDefault})
\* has written the new document: no other document is touched
saveScheduleDefaults(isDefault, defaults) ==
    IF isDefault THEN defaults \cup {FreshScheduleId} ELSE defaults

\* ... after updateSchedule(scheduleId, userId, {isDefault: true}): it throws
\* on a missing document and otherwise updates that document alone
updateScheduleDefaults(scheduleId, docs, defaults) ==
    IF scheduleId \in docs THEN defaults \cup {scheduleId} ELSE defaults

\* ... after setDefaultSchedule(scheduleId, userId): one batch that unsets
\* every default and sets scheduleId; it fails as a whole on a missing document
setDefaultSchedule(scheduleId, docs, defaults) ==
    IF scheduleId \in docs THEN {scheduleId} ELSE defaults

\* the "+ New Schedule" button of the page is disabled at ten listed schedules
NewScheduleDisabled(list) == Cardinality(list) >= ScheduleQuota

\* SchedulesPage is rendered only on the 'schedules' route; its state is
\* created on mount (loadSchedules) and lost on unmount
PageState(route, docs, creating) ==
    IF route = "schedules"
    THEN /\ schedules' = docs
         /\ isCreating' = creating
    ELSE /\ schedules' = {}
         /\ isCreating' = FALSE

\* Dashboard.handleScheduleSelect(scheduleId), with docs the documents
\* stored when it runs
SelectSchedule(scheduleId, docs, creating) ==
    IF scheduleId \in docs
    THEN /\ timeBlocks' = <<>>
         /\ currentScheduleId' = Some(scheduleId)
         /\ currentRoute' = "dashboard"
         /\ PageState("dashboard", docs, creating)
    ELSE /\ UNCHANGED <<timeBlocks, currentScheduleId, currentRoute>>
         /\ PageState(currentRoute, docs, creating)

ScheduleFrame ==
    UNCHANGED <<dialVars, pendingBlock, editingBlock, showLabelModal, codecVars,
                surfaceVars, loadVars, chartVars>>

\* Sidebar.onNavigate(route)
Navigate(route) ==
    /\ route # currentRoute
    /\ currentRoute' = route
    /\ PageState(route, storedSchedules, FALSE)
    /\ Observe("navigate")
    /\ UNCHANGED <<storedSchedules, defaultSchedules, currentScheduleId, timeBlocks>>
    /\ ScheduleFrame

\* SchedulesPage: click on "+ New Schedule"
OpenCreateForm ==
    /\ currentRoute = "schedules"
    /\ ~isCreating
    /\ ~NewScheduleDisabled(schedules)
    /\ isCreating' = TRUE
    /\ Observe("openCreateForm")
    /\ UNCHANGED <<storedSchedules, defaultSchedules, currentRoute,
                   currentScheduleId, schedules, timeBlocks>>
    /\ ScheduleFrame

\* SchedulesPage.handleCreateSchedule, with a name typed into the form
HandleCreateSchedule ==
    /\ currentRoute = "schedules"
    /\ isCreating
    /\ Cardinality(storedSchedules) < MaxStored
    /\ LET newId == FreshScheduleId
           docs == saveSchedule(storedSchedules)
           defaults == saveScheduleDefaults(schedules = {}, defaultSchedules)
       IN  /\ Cardinality(defaults) <= MaxDefaults
           /\ storedSchedules' = docs
           /\ defaultSchedules' = defaults
           /\ SelectSchedule(newId, docs, FALSE)
    /\ Observe("handleCreateSchedule")
    /\ ScheduleFrame

\* SchedulesPage.handleDuplicate(scheduleId, name)
HandleDuplicate(scheduleId) ==
    /\ currentRoute = "schedules"
    /\ scheduleId \in schedules
    /\ Cardinality(storedSchedules) < MaxStored
    /\ storedSchedules' = duplicateSchedule(scheduleId, storedSchedules)
    /\ schedules' = storedSchedules'
    /\ Observe("handleDuplicate")
    /\ UNCHANGED <<defaultSchedules, currentRoute, currentScheduleId, isCreating,
                   timeBlocks>>
    /\ ScheduleFrame

\* SchedulesPage.handleDelete(scheduleId, name), the confirm() accepted;
\* remaining[0] is the most recently updated of the others, any of them here
HandleDelete(scheduleId) ==
    /\ currentRoute = "schedules"
    /\ scheduleId \in schedules
    /\ LET docs == deleteSchedule(scheduleId, storedSchedules)
           remaining == schedules \ {scheduleId}
       IN  /\ storedSchedules' = docs
           /\ defaultSchedules' = defaultSchedules \ {scheduleId}
           /\ IF Some(scheduleId) = currentScheduleId
                 /\ Cardinality(schedules) > 1 /\ remaining # {}
              THEN \E first \in remaining : SelectSchedule(first, docs, isCreating)
              ELSE /\ PageState(currentRoute, docs, isCreating)
                   /\ UNCHANGED <<currentRoute, currentScheduleId, timeBlocks>>
    /\ Observe("handleDelete")
    /\ ScheduleFrame

\* Dashboard.handleSaveSchedule, with a title typed into the prompt():
\* updates the current schedule, or saves a new one when there is none
HandleSaveSchedule ==
    /\ currentRoute = "dashboard"
    /\ currentScheduleId = Null => Cardinality(storedSchedules) < MaxStored
    /\ IF currentScheduleId # Null
       THEN /\ defaultSchedules' =
                   updateScheduleDefaults(currentScheduleId[1], storedSchedules,
                                          defaultSchedules)
            /\ UNCHANGED <<storedSchedules, currentScheduleId>>
       ELSE /\ storedSchedules' = saveSchedule(storedSchedules)
            /\ defaultSchedules' = saveScheduleDefaults(TRUE, defaultSchedules)
            /\ currentScheduleId' = Some(FreshScheduleId)
    /\ Cardinality(defaultSchedules') <= MaxDefaults
    /\ Observe("handleSaveSchedule")
    /\ UNCHANGED <<currentRoute, schedules, isCreating, timeBlocks>>
    /\ ScheduleFrame

\* Dashboard.handleCreateNewSchedule, with a name typed into the prompt()
HandleCreateNewSchedule ==
    /\ currentRoute = "dashboard"
    /\ Cardinality(storedSchedules) < MaxStored
    /\ storedSchedules' = saveSchedule(storedSchedules)
    /\ defaultSchedules' = saveScheduleDefaults(FALSE, defaultSchedules)
    /\ currentScheduleId' = Some(FreshScheduleId)
    /\ timeBlocks' = <<>>
    /\ Observe("handleCreateNewSchedule")
    /\ UNCHANGED <<currentRoute, schedules, isCreating>>
    /\ ScheduleFrame

\* SchedulesPage.handleSetDefault(scheduleId): the "Set Default" button is
\* rendered for the listed schedules that are not the default
HandleSetDefault(scheduleId) ==
    /\ currentRoute = "schedules"
    /\ scheduleId \in schedules
    /\ scheduleId \notin defaultSchedules
    /\ defaultSchedules' =
           setDefaultSchedule(scheduleId, storedSchedules, defaultSchedules)
    /\ schedules' = storedSchedules
    /\ Observe("handleSetDefault")
    /\ UNCHANGED <<storedSchedules, currentRoute, currentScheduleId, isCreating,
                   timeBlocks>>
    /\ ScheduleFrame

Routes == {"dashboard", "schedules"}

NextSchedules ==
    \/ \E route \in Routes : Navigate(route)
    \/ OpenCreateForm
    \/ HandleCreateSchedule
    \/ \E scheduleId \in 1..MaxListed : HandleDuplicate(scheduleId)
    \/ \E scheduleId \in 1..MaxListed : HandleDelete(scheduleId)
    \/ \E scheduleId \in 1..MaxListed : HandleSetDefault(scheduleId)
    \/ HandleSaveSchedule
    \/ HandleCreateNewSchedule

SpecSchedules == Init /\ [][NextSchedules]_vars

-----------------------------------------------------------------------------
(* The editor while a schedule is being switched: handleScheduleSelect     *)
(* awaits getSchedule() and the editor stays usable until the read returns *)

\* the two stored schedules of this specification: number 1, open in the
\* editor and still empty, and number 2 with one block 00:00-08:00
LoadSchedules == {1, 2}

ScheduleDocument(scheduleId) ==
    IF scheduleId = 1 THEN <<>>
    ELSE <<[id |-> 1, startTime |-> Clock(0, 0), endTime |-> Clock(8, 0),
            label |-> "Sleep", color |-> "#60a5fa", order |-> 0]>>

InitLoadSpec ==
    /\ InitDial /\ InitObserved /\ InitSurface /\ InitLoad /\ InitChart
    /\ storedSchedules = LoadSchedules
    /\ currentRoute = "dashboard"
    /\ currentScheduleId = Some(1)
    /\ schedules = {}
    /\ isCreating = FALSE
    /\ defaultSchedules = {1}
    /\ timeBlocks = ScheduleDocument(1)
    /\ pendingBlock = Null
    /\ editingBlock = Null
    /\ showLabelModal = FALSE
    /\ call = NoCall
    /\ ret = Null

\* handleScheduleSelect(scheduleId) up to its await: a click on an entry of
\* the schedule dropdown starts the read and changes nothing yet
RequestSchedule(scheduleId) ==
    /\ ~showLabelModal
    /\ ~isDragging
    /\ currentRoute = "dashboard"
    /\ scheduleId \in storedSchedules
    /\ Len(scheduleLoad) < MaxLoads
    /\ scheduleLoad' =
           Append(scheduleLoad,
                  [id |-> scheduleId, timeBlocks |-> ScheduleDocument(scheduleId)])
    /\ Observe("handleScheduleSelect")
    /\ UNCHANGED <<dialVars, editorVars, codecVars, scheduleVars, surfaceVars,
                   chartVars>>

\* the rest of handleScheduleSelect, run when the read returns: the
\* editor's blocks are replaced by the document's
ReceiveSchedule(k) ==
    /\ k \in 1..Len(scheduleLoad)
    /\ scheduleLoad' = SubSeq(scheduleLoad, 1, k - 1)
                         \o SubSeq(scheduleLoad, k + 1, Len(scheduleLoad))
    /\ timeBlocks' = scheduleLoad[k].timeBlocks
    /\ currentScheduleId' = Some(scheduleLoad[k].id)
    /\ currentRoute' = "dashboard"
    /\ event' = "scheduleLoaded"
    /\ created' = Null
    /\ alertMsg' = Null
    /\ UNCHANGED <<dialVars, pendingBlock, editingBlock, showLabelModal, gesture,
                   domVars, codecVars, storedSchedules, schedules, isCreating,
                   defaultSchedules,
                   surfaceVars, chartVars>>

NextLoad ==
    \/ \E angle \in ThirdAngles :
          HandleMouseDown(angle) /\ UNCHANGED <<gesture, domVars>>
    \/ \E angle \in ThirdAngles :
          HandleMouseMove(angle) /\ UNCHANGED <<gesture, domVars>>
    \/ HandleMouseUp /\ UNCHANGED domVars
    \/ \E choice \in LabelChoices : HandleSaveBlock(choice[1], choice[2])
    \/ CloseModal
    \/ \E scheduleId \in LoadSchedules : RequestSchedule(scheduleId)
    \/ \E k \in 1..MaxLoads : ReceiveSchedule(k)

SpecLoad == InitLoadSpec /\ [][NextLoad]_vars

-----------------------------------------------------------------------------
(* DayChart: the pie of slices with its increment dropdown *)

\* what no DayChart handler touches
ChartFrame ==
    UNCHANGED <<dialVars, editorVars, codecVars, scheduleVars, surfaceVars,
                loadVars>>

\* getSelectedIndexes(): the slice indexes from startIndex round to endIndex
getSelectedIndexes(chart) ==
    IF chart.startIndex = Null \/ chart.endIndex = Null THEN {}
    ELSE LET startIndex == chart.startIndex[1]
             endIndex == chart.endIndex[1]
             totalSlices == TotalSlices(chart.timeIncrement)
         IN  IF startIndex <= endIndex
             THEN startIndex..endIndex
             ELSE {(startIndex + i) % totalSlices :
                       i \in 0..(totalSlices - startIndex + endIndex)}

\* the dropdown's onChange with an effect that leaves the selection alone
SetTimeIncrement_KeepSelection(timeIncrement) ==
    /\ ~dayChart.showModal
    /\ timeIncrement # dayChart.timeIncrement
    /\ dayChart' = [dayChart EXCEPT
                       !.timeIncrement = timeIncrement,
                       !.slices = BlankSlices(TotalSlices(timeIncrement))]
    /\ Observe("setTimeIncrement")
    /\ ChartFrame

\* the dropdown's onChange to another increment, followed by the effect on
\* [timeIncrement]: blank slices of the new number, no selection
SetTimeIncrement(timeIncrement) ==
    /\ ~dayChart.showModal
    /\ timeIncrement # dayChart.timeIncrement
    /\ dayChart' = [dayChart EXCEPT
                       !.timeIncrement = timeIncrement,
                       !.slices = BlankSlices(TotalSlices(timeIncrement)),
                       !.startIndex = Null,
                       !.endIndex = Null]
    /\ Observe("setTimeIncrement")
    /\ ChartFrame

\* a click on one of the palette's buttons
SetSelectedColor(color) ==
    /\ ~dayChart.showModal
    /\ color # dayChart.selectedColor
    /\ dayChart' = [dayChart EXCEPT !.selectedColor = color]
    /\ Observe("setSelectedColor")
    /\ ChartFrame

\* DayChart.handleMouseDown on the chart; index is the slice under the
\* pointer, Null off the pie
ChartHandleMouseDown(index) ==
    /\ ~dayChart.showModal
    /\ IF index # Null
       THEN dayChart' = [dayChart EXCEPT !.isDragging = TRUE,
                                         !.startIndex = index,
                                         !.endIndex = index]
       ELSE UNCHANGED dayChart
    /\ Observe("chartMouseDown")
    /\ ChartFrame

\* DayChart.handleMouseMove
ChartHandleMouseMove(index) ==
    /\ ~dayChart.showModal
    /\ IF dayChart.isDragging /\ dayChart.startIndex # Null
          /\ index # Null /\ index # dayChart.endIndex
       THEN dayChart' = [dayChart EXCEPT !.endIndex = index]
       ELSE UNCHANGED dayChart
    /\ Observe("chartMouseMove")
    /\ ChartFrame

\* DayChart.handleMouseUp
ChartHandleMouseUp ==
    /\ ~dayChart.showModal
    /\ IF dayChart.isDragging /\ dayChart.startIndex # Null
          /\ dayChart.endIndex # Null
       THEN dayChart' = [dayChart EXCEPT !.isDragging = FALSE, !.showModal = TRUE]
       ELSE UNCHANGED dayChart
    /\ Observe("chartMouseUp")
    /\ ChartFrame

\* typing into the dialog's input
SetLabelInput(text) ==
    /\ dayChart.showModal
    /\ text # dayChart.labelInput
    /\ dayChart' = [dayChart EXCEPT !.labelInput = text]
    /\ Observe("setLabelInput")
    /\ ChartFrame

\* applyLabel, the dialog's Save button
applyLabel ==
    /\ dayChart.showModal
    /\ LET selected == getSelectedIndexes(dayChart)
           updated == [i \in 1..Len(dayChart.slices) |->
                          IF (i - 1) \in selected
                          THEN [color |-> dayChart.selectedColor,
                                label |-> dayChart.labelInput]
                          ELSE dayChart.slices[i]]
       IN  dayChart' = [dayChart EXCEPT !.slices = updated,
                                        !.labelInput = "",
                                        !.startIndex = Null,
                                        !.endIndex = Null,
                                        !.showModal = FALSE]
    /\ Observe("applyLabel")
    /\ ChartFrame

\* the dialog's Cancel button and onRequestClose
ChartCloseModal ==
    /\ dayChart.showModal
    /\ dayChart' = [dayChart EXCEPT !.showModal = FALSE]
    /\ Observe("chartCloseModal")
    /\ ChartFrame

\* the options of the increment dropdown, in minutes
TimeIncrements == {15, 30, 60}

\* the slices the pointer is put on: the first and the last one, and Null
\* for a point off the pie
SliceIndexes ==
    {Some(0), Some(TotalSlices(dayChart.timeIncrement) - 1), Null}

\* two of the availableColors
PaletteColors == {"#f87171", "#60a5fa"}

\* what is typed into the dialog
LabelInputs == {"", "Work"}

NextChart ==
    \/ \E timeIncrement \in TimeIncrements : SetTimeIncrement(timeIncrement)
    \/ \E color \in PaletteColors : SetSelectedColor(color)
    \/ \E index \in SliceIndexes : ChartHandleMouseDown(index)
    \/ \E index \in SliceIndexes : ChartHandleMouseMove(index)
    \/ ChartHandleMouseUp
    \/ \E text \in LabelInputs : SetLabelInput(text)
    \/ applyLabel
    \/ ChartCloseModal

SpecChart == Init /\ [][NextChart]_vars

-----------------------------------------------------------------------------
(* Claims about the time codec and the interval algebra (SpecCodec) *)

\* the duration of an interval of minutes of day, as the spec's data model
\* reads it: the clockwise distance from start to end, 0 when they coincide
ClockwiseDistance(iv) == (iv.end - iv.start + DayMinutes) % DayMinutes

ValidResult == [valid |-> TRUE, message |-> NoMessage]
DurationFailure == [valid |-> FALSE, message |-> DurationMessage]

\* C2: validate reports valid exactly when the candidate has positive
\* duration and shares no minute with any existing block whose id differs
\* from excludeId; so a candidate of positive duration is valid against the
\* empty collection, and a block re-validated with excludeId set to its own
\* id is not in conflict with itself.
C2_ValidateIffNoConflict ==
    Returned("validate") =>
        LET c == call.candidate
            ex == call.existing
            others == {i \in 1..Len(ex) : Some(i) # call.excludeId}
        IN  /\ ret[1].valid <=>
                   /\ ClockwiseDistance(c) > 0
                   /\ \A i \in others : ~SharesMinute(c, ex[i])
            /\ (ClockwiseDistance(c) > 0 /\ Len(ex) = 0) => ret[1] = ValidResult
            /\ \A k \in 1..Len(ex) :
                   (c = ex[k] /\ call.excludeId = Some(k)) =>
                       ret[1].message # OverlapMessage(ExistingBlocks(ex)[k])

\* an edit of the second of two blocks, validated against the collection
\* that holds it, has returned valid
C2_Witness ==
    /\ Returned("validate")
    /\ Len(call.existing) = 2
    /\ call.candidate = call.existing[2]
    /\ call.excludeId = Some(2)
    /\ ret[1] = ValidResult

\* C3: a candidate with start = end (duration <= 0) fails with the duration
\* error whatever the existing collection holds, also when every existing
\* block conflicts with it: the duration test is decided before the scan.
C3_ZeroDurationFirst ==
    Returned("validate") =>
        (ClockwiseDistance(call.candidate) <= 0 => ret[1] = DurationFailure)

\* a zero-length candidate was validated against a non-empty collection
C3_Witness ==
    /\ Returned("validate")
    /\ call.candidate.start = call.candidate.end
    /\ Len(call.existing) > 0
    /\ call.excludeId = Null
    /\ ret[1] = DurationFailure

\* the non-wrapping segments of an interval, as the spec defines them
SegmentsOf(iv) ==
    IF iv.end > iv.start THEN {<<iv.start, iv.end>>}
    ELSE {sg \in {<<iv.start, DayMinutes>>, <<0, iv.end>>} : sg[1] # sg[2]}

\* b starts where a ends and ends before coming round to a's start
OnlyTouch(a, b) ==
    /\ ClockwiseDistance(a) > 0
    /\ ClockwiseDistance(b) > 0
    /\ a.end = b.start
    /\ ClockwiseDistance(a) + ClockwiseDistance(b) <= DayMinutes

\* C4: overlaps(a, b) is true exactly when a segment of a and a segment of b
\* satisfy the half-open test, which is when the two intervals share a
\* minute; intervals that only touch at an endpoint (also at midnight) do
\* not overlap, and 23:00->01:00 overlaps 00:00-00:30.
C4_OverlapIffSegmentsMeet ==
    Returned("overlap") =>
        LET a == call.a
            b == call.b
        IN  /\ ret[1] <=> \E s1 \in SegmentsOf(a), s2 \in SegmentsOf(b) :
                              s1[1] < s2[2] /\ s2[1] < s1[2]
            /\ ret[1] <=> SharesMinute(a, b)
            /\ (OnlyTouch(a, b) \/ OnlyTouch(b, a)) => ret[1] = FALSE
            /\ (a = [start |-> 1380, end |-> 60] /\ b = [start |-> 0, end |-> 30])
                   => ret[1] = TRUE

\* 23:00->00:00 and 00:00-00:30, touching at midnight, were found disjoint
C4_Witness ==
    /\ Returned("overlap")
    /\ call.a = [start |-> 1380, end |-> 0]
    /\ call.b = [start |-> 0, end |-> 30]
    /\ ret[1] = FALSE

\* C5 as stated: end - start if end > start, else (1440 - start) + end
C5_DurationAsStated ==
    Returned("duration") =>
        ret[1] = IF call.iv.end > call.iv.start
                 THEN call.iv.end - call.iv.start
                 ELSE (DayMinutes - call.iv.start) + call.iv.end

\* C5, amended: duration is end - start if end >= start, else
\* (1440 - start) + end; so it is 0 for 00:00-00:00 and for every interval
\* with start = end, and 120 for 23:00->01:00.
C5_DurationAmended ==
    Returned("duration") =>
        /\ ret[1] = IF call.iv.end >= call.iv.start
                    THEN call.iv.end - call.iv.start
                    ELSE (DayMinutes - call.iv.start) + call.iv.end
        /\ call.iv = [start |-> 0, end |-> 0] => ret[1] = 0
        /\ call.iv = [start |-> 1380, end |-> 60] => ret[1] = 120

\* the duration of 23:00->01:00 was computed
C5_Witness ==
    /\ Returned("duration")
    /\ call.iv = [start |-> 1380, end |-> 60]
    /\ ret[1] = 120

\* C6: snap(m) is a multiple of 5 and lies in [0, 1440).
C6_SnapInRange ==
    Returned("snap") =>
        /\ ret[1] % 5 = 0
        /\ 0 <= ret[1]
        /\ ret[1] < DayMinutes

\* C7: fromClockString(toClockString(snap(m))) = snap(m) for m in [0, 1440).
C7_RoundTrip ==
    Returned("roundTrip") => ret[1] = snapToFiveMinutes(call.m)

\* a clock string "HH:MM": two digits, a colon, two digits, the hour at
\* most 23 and the minute at most 59
WellFormedClock(str) ==
    /\ Len(str) = 5
    /\ str[3] = ":"
    /\ \A i \in {1, 2, 4, 5} : IsDigit(str[i])
    /\ 10 * DigitVal(str[1]) + DigitVal(str[2]) <= 23
    /\ 10 * DigitVal(str[4]) + DigitVal(str[5]) <= 59

\* C17: fromClockString applied to a string that is not a valid HH:MM clock
\* string fails with a FormatError; it returns no minute value.
C17_MalformedFails ==
    (Returned("parse") /\ ~WellFormedClock(call.s)) =>
        /\ ret[1].kind = "throw"
        /\ ret[1].error = "FormatError"

\* the summed length of a sequence of segments
RECURSIVE TotalLength(_)
TotalLength(segments) ==
    IF Len(segments) = 0 THEN 0
    ELSE (segments[Len(segments)].end - segments[Len(segments)].start)
            + TotalLength(SubSeq(segments, 1, Len(segments) - 1))

\* C25: expandToSegments returns the interval itself as one segment when
\* end > start, and otherwise [start, 1440) and [0, end) without the
\* zero-width ones; the segments do not wrap and their lengths add up to
\* the duration of the interval, also when start = end.
C25_SegmentsOfInterval ==
    Returned("segments") =>
        LET iv == call.iv
            segments == ret[1]
            wrapped == <<[start |-> iv.start, end |-> DayMinutes],
                         [start |-> 0, end |-> iv.end]>>
        IN  /\ iv.end > iv.start => segments = <<iv>>
            /\ iv.end <= iv.start =>
                   segments = SelectSeq(wrapped, LAMBDA seg : seg.start # seg.end)
            /\ \A k \in 1..Len(segments) :
                   /\ 0 <= segments[k].start
                   /\ segments[k].start < segments[k].end
                   /\ segments[k].end <= DayMinutes
            /\ TotalLength(segments)
                   = calculateDuration(ClockOf(iv.start), ClockOf(iv.end))

-----------------------------------------------------------------------------
(* Claims about the legend's merge (SpecMerge) *)

\* slice number i of a ring of slices
SliceAt(slices, i) == slices[i + 1]

\* slice number i lies in the range r of a ring (a range with start > end
\* runs through the last slice to slice 0)
RangeCovers(r, i) ==
    IF r[1] <= r[2] THEN r[1] <= i /\ i <= r[2] ELSE i >= r[1] \/ i <= r[2]

\* the pairs <<entry, range>> of a merge output
OutputRanges(out) ==
    UNION {{<<e, r>> : r \in 1..Len(out[e].ranges)} : e \in 1..Len(out)}

LabeledChoices == {k \in SliceChoices : k.label # ""}

SliceA == [color |-> "#f87171", label |-> "A"]
SliceB == [color |-> "#f87171", label |-> "B"]

\* the slices ["A", "A", "B", "", "A"] of the spec's example
ExampleSlices == <<SliceA, SliceA, SliceB, UnlabeledSlice, SliceA>>

\* C14: when the slices of one (label, color) form a run that ends at the
\* last slice and another run that starts at slice 0, the output has the two
\* as one wrapped range (start > end) from the start of the last run to the
\* end of the first; for ["A", "A", "B", "", "A"] the output is "A" with
\* the single range {4, 0, 1} and "B" with the range {2}.
C14_WrapStitched ==
    Returned("merge") =>
        LET slices == call.slices
            n == Len(slices)
            out == ret[1]
        IN  /\ \A k \in LabeledChoices :
                   (/\ SliceAt(slices, 0) = k
                    /\ SliceAt(slices, n - 1) = k
                    /\ \E i \in 0..(n - 1) : SliceAt(slices, i) # k) =>
                       LET b == CHOOSE j \in 0..(n - 1) :
                                    /\ \A i \in 0..j : SliceAt(slices, i) = k
                                    /\ SliceAt(slices, j + 1) # k
                           a == CHOOSE j \in 0..(n - 1) :
                                    /\ \A i \in j..(n - 1) : SliceAt(slices, i) = k
                                    /\ SliceAt(slices, j - 1) # k
                       IN  /\ a > b
                           /\ \E e \in 1..Len(out) :
                                  /\ out[e].label = k.label
                                  /\ out[e].color = k.color
                                  /\ \E r \in 1..Len(out[e].ranges) :
                                         out[e].ranges[r] = <<a, b>>
                           /\ \A e \in 1..Len(out) : \A r \in 1..Len(out[e].ranges) :
                                  LET rg == out[e].ranges[r] IN
                                  (RangeCovers(rg, 0) \/ RangeCovers(rg, n - 1))
                                      => rg = <<a, b>>
            /\ slices = ExampleSlices =>
                   out = <<[label |-> "A", color |-> "#f87171", ranges |-> <<<<4, 1>>>>],
                           [label |-> "B", color |-> "#f87171", ranges |-> <<<<2, 2>>>>]>>

\* the spec's example was merged
C14_Witness ==
    /\ Returned("merge")
    /\ call.slices = ExampleSlices
    /\ Len(ret[1]) = 2
    /\ ret[1][1].ranges = <<<<4, 1>>>>

\* C15: the output covers exactly the labeled slices: a slice with an empty
\* label lies in no range, and a labeled slice lies in exactly one range of
\* exactly one entry, the entry of its (label, color).
C15_CoversLabeledSlices ==
    Returned("merge") =>
        LET slices == call.slices
            n == Len(slices)
            out == ret[1]
            covering(i) == {p \in OutputRanges(out) :
                               RangeCovers(out[p[1]].ranges[p[2]], i)}
        IN  /\ \A e \in 1..Len(out) : \A r \in 1..Len(out[e].ranges) :
                   /\ out[e].ranges[r][1] \in 0..(n - 1)
                   /\ out[e].ranges[r][2] \in 0..(n - 1)
            /\ \A i \in 0..(n - 1) :
                   IF SliceAt(slices, i).label = ""
                   THEN covering(i) = {}
                   ELSE /\ Cardinality(covering(i)) = 1
                        /\ \A p \in covering(i) :
                               /\ out[p[1]].label = SliceAt(slices, i).label
                               /\ out[p[1]].color = SliceAt(slices, i).color

\* slices with an empty label, grey and coloured, between labeled slices of
\* one label in two colors were merged into two entries
C15_Witness ==
    /\ Returned("merge")
    /\ call.slices = <<SliceA, [color |-> "#f87171", label |-> ""],
                       [color |-> "#60a5fa", label |-> "A"], UnlabeledSlice, SliceA>>
    /\ Len(ret[1]) = 2
    /\ ret[1][1].ranges = <<<<4, 0>>>>
    /\ ret[1][2].ranges = <<<<2, 2>>>>

\* the maximal runs of the slices k on the ring: all of it, or one run for
\* each slice k that follows a slice that is not k
CircularRuns(slices, k) ==
    LET n == Len(slices) IN
    IF \A i \in 0..(n - 1) : SliceAt(slices, i) = k THEN 1
    ELSE Cardinality({i \in 0..(n - 1) :
                         /\ SliceAt(slices, i) = k
                         /\ SliceAt(slices, (i + n - 1) % n) # k})

\* C16: the ranges of every entry are minimal: no range of an entry starts
\* on the slice after another (or the same) range of it ends, also from
\* the last slice to slice 0, unless it is the one range of the whole ring;
\* no two ranges of an entry share a slice; and an entry has as many ranges
\* as its (label, color) has maximal circular runs.
C16_MinimalRanges ==
    Returned("merge") =>
        LET slices == call.slices
            n == Len(slices)
            out == ret[1]
        IN  /\ \A e \in 1..Len(out) :
                   LET ranges == out[e].ranges
                       k == [color |-> out[e].color, label |-> out[e].label]
                   IN  /\ Len(ranges) = CircularRuns(slices, k)
                       /\ \A r1, r2 \in 1..Len(ranges) :
                              /\ ((ranges[r1][2] + 1) % n = ranges[r2][1])
                                     => (r1 = r2 /\ ranges[r1] = <<0, n - 1>>)
                              /\ r1 # r2 =>
                                     \A i \in 0..(n - 1) :
                                        ~(RangeCovers(ranges[r1], i)
                                             /\ RangeCovers(ranges[r2], i))
            /\ \A k \in LabeledChoices :
                   CircularRuns(slices, k) > 0 =>
                       \E e \in 1..Len(out) :
                           out[e].label = k.label /\ out[e].color = k.color

\* a label with two separate runs, neither through the end of the day, was
\* merged into two ranges
C16_Witness ==
    /\ Returned("merge")
    /\ call.slices = <<SliceA, SliceA, SliceB, SliceA, UnlabeledSlice>>
    /\ ret[1][1].ranges = <<<<0, 1>>, <<3, 3>>>>

-----------------------------------------------------------------------------
(* Claims about the editor and the dial *)

\* the minute of day a clock string "HH:MM" stands for, read digit by digit
MinuteOfClock(str) ==
    (10 * DigitVal(str[1]) + DigitVal(str[2])) * 60
        + 10 * DigitVal(str[4]) + DigitVal(str[5])
BlockInterval(b) ==
    [start |-> MinuteOfClock(b.startTime), end |-> MinuteOfClock(b.endTime)]

\* C1: from the empty collection, whatever the editor does (drags committed
\* through validation and saved with a label, edits, deletes, clear all),
\* no two blocks of timeBlocks share a minute of the circular day.
C1_NoOverlap ==
    \A i, j \in 1..Len(timeBlocks) :
        i < j => ~SharesMinute(BlockInterval(timeBlocks[i]), BlockInterval(timeBlocks[j]))

\* a second block was saved beside one that wraps through midnight
C1_Witness ==
    /\ event = "saveBlock"
    /\ Len(timeBlocks) = 2
    /\ \E i \in 1..2 : BlockInterval(timeBlocks[i]).end < BlockInterval(timeBlocks[i]).start

\* a candidate is acceptable beside the blocks of the schedule
Acceptable(iv, blocks) ==
    /\ ClockwiseDistance(iv) > 0
    /\ \A i \in 1..Len(blocks) : ~SharesMinute(iv, BlockInterval(blocks[i]))

\* C8: a pointer-up commits a candidate exactly when the session is
\* activated and accumulated >= 5; the candidate is (anchor, (anchor +
\* accumulated) mod 1440) in clock-string form and goes through validation
\* (accepted: it becomes the pending block of the label dialog; rejected:
\* the conflict is alerted); any other pointer-up calls nothing, alerts
\* nothing and leaves the editor as it was. No pointer-up adds a block.
C8_CommitOnRelease ==
    [][event' = "mouseUp" =>
          LET activated == isDragging /\ hasMovedEnough /\ dragStart # Null IN
          /\ created' # Null <=> (activated /\ dragProgress >= 5)
          /\ created' # Null =>
                LET iv == [start |-> dragStart[1] % DayMinutes,
                           end |-> (dragStart[1] + dragProgress) % DayMinutes]
                    candidate == [startTime |-> ClockOf(iv.start),
                                  endTime |-> ClockOf(iv.end)]
                IN  /\ created' = Some(<<candidate.startTime, candidate.endTime>>)
                    /\ IF Acceptable(iv, timeBlocks)
                       THEN /\ pendingBlock' = Some(candidate)
                            /\ showLabelModal'
                            /\ alertMsg' = Null
                       ELSE /\ alertMsg' # Null
                            /\ UNCHANGED <<pendingBlock, showLabelModal>>
          /\ created' = Null => (alertMsg' = Null /\ UNCHANGED editorVars)
          /\ UNCHANGED <<timeBlocks, editingBlock>>
          /\ ~isDragging' /\ dragStart' = Null
    ]_vars

\* a drag from 23:55 through midnight to 00:05 was committed and accepted
C8_Witness ==
    /\ event = "mouseUp"
    /\ created = Some(<<Clock(23, 55), Clock(0, 5)>>)
    /\ pendingBlock = Some([startTime |-> Clock(23, 55), endTime |-> Clock(0, 5)])
    /\ showLabelModal

\* the pointer-down at 10:00 and the three moves of +2 minutes each
ScenarioGesture == <<600, 602, 604, 606>>

\* C9 as stated: the scenario commits the candidate (600, 606)
C9_ScenarioAsStated ==
    (event = "mouseUp" /\ gesture = ScenarioGesture)
        => created = Some(<<Clock(10, 0), Clock(10, 6)>>)

\* C9, amended: the scenario commits exactly the candidate (600, 605),
\* 10:00-10:05: every raw position is snapped before its delta is
\* accumulated, so the accumulated progress at the release is 5.
C9_ScenarioAmended ==
    /\ gesture = ScenarioGesture /\ event = "mouseMove"
          => (dragStart = Some(600) /\ dragProgress = 5 /\ hasMovedEnough)
    /\ gesture = ScenarioGesture /\ event = "mouseUp"
          => created = Some(<<Clock(10, 0), Clock(10, 5)>>)

\* the scenario was played to its pointer-up and the candidate accepted
C9_Witness ==
    /\ gesture = ScenarioGesture
    /\ event = "mouseUp"
    /\ created = Some(<<Clock(10, 0), Clock(10, 5)>>)
    /\ pendingBlock = Some([startTime |-> Clock(10, 0), endTime |-> Clock(10, 5)])

\* C10: every pointer-move adds to the progress the delta between the last
\* and the new snapped minute taken the shortest way round the dial (1440
\* less when above 720, 1440 more when below -720: at most 720 either way,
\* and +10 from 23:55 to 00:05), clamped to [0, 1440]; the accumulated
\* progress lies in [0, 1440] in every reachable state.
C10_ShortestDeltaClamped ==
    /\ dragProgress \in 0..DayMinutes
    /\ [][/\ dragProgress' \in 0..DayMinutes
          /\ (event' = "mouseMove" /\ lastDragMinutes # Null) =>
                LET raw == lastDragMinutes'[1] - lastDragMinutes[1]
                    d == IF raw > 720 THEN raw - 1440
                         ELSE IF raw < -720 THEN raw + 1440 ELSE raw
                IN  /\ d \in (-720)..720
                    /\ (d - raw) % 1440 = 0
                    /\ dragProgress' = Max(0, Min(1440, dragProgress + d))
                    /\ (lastDragMinutes = Some(1435) /\ lastDragMinutes' = Some(5)
                            /\ dragProgress <= 1430)
                          => dragProgress' = dragProgress + 10
       ]_vars

\* a session pressed at 23:55 has moved to 00:05 and accumulated 10 minutes
C10_Witness ==
    /\ event = "mouseMove"
    /\ gesture = <<-5, 3>>
    /\ lastDragMinutes = Some(5)
    /\ dragProgress = 10

\* C13: when a candidate committed by a release fails validation, the
\* conflict is surfaced (an alert with the duration message, or with the
\* message naming a block the candidate shares a minute with) and the
\* candidate is discarded: the block collection is unchanged, no pending
\* block is stored, the label dialog stays closed, and the session is over
\* (Idle), so nothing is retried.
C13_RejectedCandidateDiscarded ==
    [][(event' = "mouseUp" /\ created' # Null) =>
          LET iv == [start |-> MinuteOfClock(created'[1][1]),
                     end |-> MinuteOfClock(created'[1][2])]
          IN  ~Acceptable(iv, timeBlocks) =>
                /\ alertMsg' # Null
                /\ IF ClockwiseDistance(iv) = 0
                   THEN alertMsg' = Some(DurationMessage)
                   ELSE \E i \in 1..Len(timeBlocks) :
                            /\ SharesMinute(iv, BlockInterval(timeBlocks[i]))
                            /\ alertMsg' = Some(OverlapMessage(timeBlocks[i]))
                /\ UNCHANGED <<timeBlocks, pendingBlock, editingBlock, showLabelModal>>
                /\ pendingBlock' = Null
                /\ ~showLabelModal'
                /\ ~isDragging' /\ dragStart' = Null /\ dragProgress' = 0
                /\ timeline' = TimelineIdle
    ]_vars

\* a drag from 00:00 to 00:10 was released inside the block 00:00-08:00: the
\* overlap was alerted and nothing was kept
C13_Witness ==
    /\ event = "mouseUp"
    /\ created = Some(<<Clock(0, 0), Clock(0, 10)>>)
    /\ Len(timeBlocks) = 1
    /\ alertMsg = Some(OverlapMessage(timeBlocks[1]))
    /\ pendingBlock = Null
    /\ ~showLabelModal

\* C27: saving the dialog while an existing block is edited changes only
\* that block's label and color: its id, startTime, endTime and order stay,
\* every other block stays as it was, and the number of blocks is unchanged.
C27_EditChangesLabelAndColor ==
    [][(showLabelModal /\ editingBlock # Null /\ event' = "editBlock") =>
          /\ Len(timeBlocks') = Len(timeBlocks)
          /\ \A i \in 1..Len(timeBlocks) :
                IF timeBlocks[i].id = editingBlock[1].id
                THEN timeBlocks'[i] =
                        [timeBlocks[i] EXCEPT !.label = timeBlocks'[i].label,
                                              !.color = timeBlocks'[i].color]
                ELSE timeBlocks'[i] = timeBlocks[i]]_vars

\* one of two differently labelled blocks has just been edited
C27_Witness ==
    /\ event = "editBlock"
    /\ Len(timeBlocks) = 2
    /\ timeBlocks[1].label # timeBlocks[2].label
    /\ timeBlocks[1].color # timeBlocks[2].color

\* C24: validation scans the blocks in insertion order and the conflict it
\* reports is the first block in that order that overlaps the candidate,
\* also when several blocks overlap it and the collection has been sorted
\* by start time since they were inserted: the block named in the alert is
\* inserted no later (has no greater order) than any other overlapping one.
C24_FirstInsertedConflict ==
    [][(/\ event' = "mouseUp"
        /\ created' # Null
        /\ alertMsg' # Null
        /\ alertMsg' # Some(DurationMessage)) =>
          LET iv == [start |-> MinuteOfClock(created'[1][1]),
                     end |-> MinuteOfClock(created'[1][2])]
              conflicts == {i \in 1..Len(timeBlocks) :
                               SharesMinute(iv, BlockInterval(timeBlocks[i]))}
          IN  \E i \in conflicts :
                  /\ alertMsg' = Some(OverlapMessage(timeBlocks[i]))
                  /\ \A j \in conflicts : timeBlocks[i].order <= timeBlocks[j].order
    ]_vars

-----------------------------------------------------------------------------
(* Claims about the dial under the DOM events of mouse and touch *)

\* the session is Pressed or Activated
InSession == isDragging /\ dragStart # Null

\* C11: a pointer cancel (the touch is cancelled, the pointer leaves the
\* surface) in any drag state returns the session to Idle and has no other
\* effect: onBlockCreated is not called, nothing is alerted and no block and
\* no pending block is produced.
C11_CancelDiscards ==
    [][((InSession \/ timeline.isDragging)
           /\ domEvent' \in {"mouseleave", "touchcancel"}) =>
          /\ ~isDragging' /\ dragStart' = Null /\ dragProgress' = 0
          /\ timeline' = TimelineIdle
          /\ created' = Null
          /\ alertMsg' = Null
          /\ UNCHANGED editorVars
    ]_vars

\* the minutes a pointer-down can anchor a session at
AnchorMinutes == {5 * k : k \in 0..(DayMinutes \div 5)}

\* C12: a surface (the dial, the timeline) holds one drag session; a
\* pointer-down received while a session is Pressed or Activated commits
\* nothing of that session (no onBlockCreated call, no alert, the editor
\* untouched) and either leaves the session as it is or replaces it by a
\* fresh Pressed session anchored at the new position, with nothing
\* accumulated and not activated.
C12_OneSessionAtATime ==
    [][((InSession \/ timeline.isDragging)
           /\ domEvent' \in {"mousedown", "touchstart"}) =>
          /\ created' = Null
          /\ alertMsg' = Null
          /\ UNCHANGED editorVars
          /\ \/ UNCHANGED <<dialVars, timeline>>
             \/ /\ isDragging'
                /\ dragStart' \in {Some(m) : m \in AnchorMinutes}
                /\ lastDragMinutes' = dragStart'
                /\ dragProgress' = 0
                /\ ~hasMovedEnough'
                /\ UNCHANGED timeline
             \/ /\ timeline'.isDragging
                /\ timeline'.dragStart \in {Some(m) : m \in AnchorMinutes}
                /\ timeline'.dragEnd = timeline'.dragStart
                /\ ~timeline'.hasMovedEnough
                /\ UNCHANGED dialVars
    ]_vars

\* a session that replaced an open one was released with a commit
C12_Witness ==
    /\ replacedSession
    /\ domEvent = "mouseup"
    /\ created # Null
    /\ blockCreatedCalls = 1

\* C19: native scrolling is suppressed only once the activation threshold
\* has been reached: a touchmove after which the session (of the dial, of
\* the timeline) is still Pressed, below the threshold and not activated,
\* has not had its default prevented.
C19_NoPreventBeforeThreshold ==
    [][(domEvent' = "touchmove" /\ ~hasMovedEnough' /\ ~timeline'.hasMovedEnough)
          => ~defaultPrevented']_vars

\* a touchmove was handled below the threshold and left to the browser, and
\* the session is still Pressed
C19_Witness ==
    /\ domEvent = "touchmove"
    /\ isDragging /\ dragStart # Null
    /\ ~hasMovedEnough
    /\ dragProgress < DRAG_THRESHOLD_MINUTES
    /\ ~defaultPrevented

C22_DragDurationBounded ==
    [][(event' = "mouseUp" /\ created' # Null) =>
          LET iv == [start |-> MinuteOfClock(created'[1][1]),
                     end |-> MinuteOfClock(created'[1][2])]
              wholeDay ==
                  \/ viewMode = "circular" /\ dragProgress = DayMinutes
                  \/ /\ viewMode = "linear"
                     /\ {timeline.dragStart, timeline.dragEnd}
                            = {Some(0), Some(DayMinutes)}
          IN  /\ pendingBlock' # Null =>
                    /\ pendingBlock'[1].startTime = created'[1][1]
                    /\ pendingBlock'[1].endTime = created'[1][2]
                    /\ ClockwiseDistance(iv) \in 5..(DayMinutes - 5)
              /\ wholeDay =>
                    /\ created'[1][1] = created'[1][2]
                    /\ alertMsg' = Some(DurationMessage)
                    /\ pendingBlock' = Null
                    /\ UNCHANGED timeBlocks
    ]_vars

\* a drag over the whole day was released on an empty schedule and turned
\* down for its duration
C22_Witness ==
    /\ event = "mouseUp"
    /\ created = Some(<<Clock(0, 0), Clock(0, 0)>>)
    /\ alertMsg = Some(DurationMessage)
    /\ pendingBlock = Null
    /\ timeBlocks = <<>>

\* C23: on the dial, throughout a session, the anchor plus the accumulated
\* minutes is, modulo the day, the latest snapped minute of the pointer,
\* also after the pointer went behind the anchor and came back: the end
\* time committed is the minute under the pointer at release.
C23_EndUnderPointer ==
    (isDragging /\ dragStart # Null /\ lastDragMinutes # Null) =>
        (dragStart[1] + dragProgress) % DayMinutes = lastDragMinutes[1] % DayMinutes

\* C28: in every state of the dial's drag machine hasMovedEnough implies
\* isDragging and a non-null dragStart, and when the dial is idle (isDragging
\* false) dragStart is null, the accumulated progress is 0 and hasMovedEnough
\* is false.
C28_DragStateConsistent ==
    /\ hasMovedEnough => (isDragging /\ dragStart # Null)
    /\ ~isDragging =>
          /\ dragStart = Null
          /\ dragProgress = 0
          /\ hasMovedEnough = FALSE

\* a drag past the threshold is under way on the dial
C28_Witness ==
    /\ viewMode = "circular"
    /\ isDragging
    /\ hasMovedEnough
    /\ dragStart # Null
    /\ dragProgress >= DRAG_THRESHOLD_MINUTES

\* a minute on the five-minute grid of one day
OnGrid(minutes) ==
    /\ minutes \in 0..(DayMinutes - 1)
    /\ minutes % 5 = 0

\* C26: every minute that enters a drag session, the anchor and each raw
\* pointer minute, on the dial and on the timeline, is a multiple of 5 in
\* [0, 1440).
C26_SessionMinutesOnGrid ==
    /\ dragStart # Null => OnGrid(dragStart[1])
    /\ lastDragMinutes # Null => OnGrid(lastDragMinutes[1])
    /\ timeline.dragStart # Null => OnGrid(timeline.dragStart[1])
    /\ timeline.dragEnd # Null => OnGrid(timeline.dragEnd[1])

-----------------------------------------------------------------------------
(* Claims about the stored schedules (SpecSchedules) *)

\* C18: after any sequence of create, duplicate, save-as-new and delete
\* operations, from the schedules page and from the editor, the number of
\* schedules stored for the user never exceeds ten
C18_AtMostTenSchedules == Cardinality(storedSchedules) <= ScheduleQuota

\* C29: whatever sequence of saves, updates, duplications, deletions and
\* changes of the default the page and the editor make, at most one stored
\* schedule has isDefault = true.
C29_AtMostOneDefault ==
    Cardinality(defaultSchedules) <= 1

-----------------------------------------------------------------------------
(* Claims about the editor while a schedule is switched (SpecLoad) *)

\* C21: a pending block is inserted into the collection it was validated
\* against: no schedule read completes between handleBlockCreated and
\* handleSaveBlock, so the insertion of a pending block never leaves two
\* blocks that share a minute.
C21_InsertedIntoValidatedCollection ==
    [][(event' = "saveBlock" /\ pendingBlock # Null) =>
          /\ validateTimeBlock(pendingBlock[1], timeBlocks, Null).valid
          /\ \A i, j \in 1..Len(timeBlocks') :
                i < j => ~SharesMinute(BlockInterval(timeBlocks'[i]),
                                       BlockInterval(timeBlocks'[j]))
    ]_vars

-----------------------------------------------------------------------------
(* Claims about DayChart (SpecChart) *)

\* C30: a change of the time increment resets the schedule: afterwards there
\* are 24 * 60 / increment slices (96, 48 or 24 for 15, 30 or 60 minutes),
\* every slice is unlabeled, and no selection is left.
C30_IncrementResets ==
    [][dayChart'.timeIncrement # dayChart.timeIncrement =>
          /\ dayChart'.timeIncrement \in {15, 30, 60}
          /\ Len(dayChart'.slices) = (24 * 60) \div dayChart'.timeIncrement
          /\ dayChart'.timeIncrement = 15 => Len(dayChart'.slices) = 96
          /\ dayChart'.timeIncrement = 30 => Len(dayChart'.slices) = 48
          /\ dayChart'.timeIncrement = 60 => Len(dayChart'.slices) = 24
          /\ \A i \in 1..Len(dayChart'.slices) :
                dayChart'.slices[i] = UnlabeledSlice
          /\ dayChart'.startIndex = Null
          /\ dayChart'.endIndex = Null]_vars

\* the increment was changed to 15 minutes while a drag was under way on
\* the pie: the drag is still on and its selection is gone
C30_Witness ==
    /\ event = "setTimeIncrement"
    /\ dayChart.timeIncrement = 15
    /\ Len(dayChart.slices) = 96
    /\ dayChart.isDragging
    /\ dayChart.startIndex = Null

====
